---- MODULE Spec2Model ----
(***************************************************************************)
(* Sales data analysis: the merge of the sales table with its three       *)
(* dimension tables (sales_analysis.py), the feature derivation and the   *)
(* validation of the cleaned tables (scripts/data_cleaning.py).           *)
(*                                                                         *)
(* A cell is a tuple: <<>> is a null cell (NaN / NaT / None), <<v>> a     *)
(* present value.  A float that results from a division is <<n, d>>, the  *)
(* reduced fraction n/d; d = 0 is an IEEE infinity of the sign of n.      *)
(* A DataFrame is [cols |-> sequence of column names, rows |-> sequence   *)
(* of rows], a row being a function from the column names to cells.       *)
(***************************************************************************)
EXTENDS Integers, Sequences, FiniteSets, TLC

VARIABLES sales, products, customers, stores,   \* the four tables
          sales_analysis,                       \* the merged table
          pc,                                   \* position in the run
          exc,                                  \* the exception raised, or "none"
          df, df2,                              \* the tables that the stages return
          validation_results,                   \* validate_cleaned_data's report
          exchange_rates,                       \* the exchange rates table
          report,                               \* generate_data_quality_report's
          csv_files,                            \* the files of data/, as bytes
          loads                                 \* the load of each file so far

vars == <<sales, products, customers, stores, sales_analysis, pc, exc,
          df, df2, validation_results, exchange_rates, report, csv_files, loads>>

(***************************************************************************)
(* Bounds of the model.                                                    *)
(***************************************************************************)
MaxFactRows == 1
MaxProductRows == 2
MaxCustomerRows == 1
MaxStoreRows == 1

Keys == {1, 2}

(***************************************************************************)
(* Cells and frames.                                                       *)
(***************************************************************************)
Null == <<>>
IsNull(c) == c = <<>>
NotNull(c) == c # <<>>

Frame(cols, rows) == [cols |-> cols, rows |-> rows]
NoFrame == Frame(<<>>, <<>>)
NoReport == [r \in {} |-> TRUE]

Range(s) == {s[i] : i \in 1..Len(s)}
HasCol(frame, c) == c \in Range(frame.cols)
SeqsUpTo(S, n) == UNION {[1..k -> S] : k \in 0..n}

RECURSIVE Flatten(_)
Flatten(ss) == IF ss = <<>> THEN <<>> ELSE Head(ss) \o Flatten(Tail(ss))

(***************************************************************************)
(* DataFrame.merge(right, on=key, how='left'), as pandas computes it:      *)
(* a column other than the key that both frames have is renamed with the   *)
(* suffixes _x (left) and _y (right); every left row is paired, in order,  *)
(* with each right row of the same key, or once with null right cells.     *)
(***************************************************************************)
Overlap(left, right, key) == (Range(left.cols) \cap Range(right.cols)) \ {key}

\* Mutant: an overlapping column is named by the role of its table.
Suffixed_role(ov, c, suffix) ==
    IF c \in ov
    THEN c \o (IF suffix = "_x" THEN " (customer)" ELSE " (store)")
    ELSE c

Suffixed(ov, c, suffix) == IF c \in ov THEN c \o suffix ELSE c

\* The columns of the right frame that the merge adds (all but the key).
RightCols(right, key) == SelectSeq(right.cols, LAMBDA c : c # key)

MergedCols(left, right, key) ==
    LET ov == Overlap(left, right, key)
        rc == RightCols(right, key)
    IN  [i \in 1..Len(left.cols) |-> Suffixed(ov, left.cols[i], "_x")]
        \o [i \in 1..Len(rc) |-> Suffixed(ov, rc[i], "_y")]

\* Mutant: a left row is paired with the first right row of its key only.
Matches_first(l, right, key) ==
    LET m == SelectSeq(right.rows, LAMBDA r : r[key] = l[key])
    IN  IF m = <<>> THEN m ELSE <<m[1]>>

\* The right rows a left row is paired with, in the right frame's order.
Matches(l, right, key) == SelectSeq(right.rows, LAMBDA r : r[key] = l[key])

\* Mutant: the cells of an unmatched row are filled with 0 instead of null.
Paired_filled(mc, lc, rc, l, rr) ==
    [c \in Range(mc) |->
        LET i == CHOOSE n \in 1..Len(mc) : mc[n] = c
        IN  IF i <= Len(lc) THEN l[lc[i]]
            ELSE IF rr = Null THEN <<0>>
            ELSE rr[1][rc[i - Len(lc)]]]

\* One merged row under the merged columns mc: the cells of the left row l
\* (columns lc), then those of the right row (columns rc), null when the
\* left row has no match (rr = Null; rr = <<r>> otherwise).
Paired(mc, lc, rc, l, rr) ==
    [c \in Range(mc) |->
        LET i == CHOOSE n \in 1..Len(mc) : mc[n] = c
        IN  IF i <= Len(lc) THEN l[lc[i]]
            ELSE IF rr = Null THEN Null
            ELSE rr[1][rc[i - Len(lc)]]]

\* Mutant: an inner join, which drops a left row that has no match.
LeftJoinRow_inner(left, right, key, mc, l) ==
    LET m == Matches(l, right, key)
        rc == RightCols(right, key)
    IN  [j \in 1..Len(m) |-> Paired(mc, left.cols, rc, l, <<m[j]>>)]

\* The merged rows of one left row.
LeftJoinRow(left, right, key, mc, l) ==
    LET m == Matches(l, right, key)
        rc == RightCols(right, key)
    IN  IF m = <<>>
        THEN <<Paired(mc, left.cols, rc, l, Null)>>
        ELSE [j \in 1..Len(m) |-> Paired(mc, left.cols, rc, l, <<m[j]>>)]

MergeRaises(left, right, key) == ~HasCol(left, key) \/ ~HasCol(right, key)

Merge(left, right, key) ==
    LET mc == MergedCols(left, right, key)
    IN  Frame(mc, Flatten([i \in 1..Len(left.rows) |->
                            LeftJoinRow(left, right, key, mc, left.rows[i])]))

(***************************************************************************)
(* The tables of a run.                                                    *)
(***************************************************************************)
SalesCols == <<"Order Number", "Order Date", "Delivery Date", "CustomerKey",
               "StoreKey", "ProductKey", "Quantity">>
ProductsCols == <<"ProductKey", "Unit Cost USD", "Unit Price USD">>
CustomersCols == <<"CustomerKey", "Name", "Country", "Birthday">>
StoresCols == <<"StoreKey", "Country">>

SalesRow(on, od, dd, c, s, p, q) ==
    [col \in Range(SalesCols) |->
        CASE col = "Order Number" -> on
          [] col = "Order Date" -> od
          [] col = "Delivery Date" -> dd
          [] col = "CustomerKey" -> c
          [] col = "StoreKey" -> s
          [] col = "ProductKey" -> p
          [] col = "Quantity" -> q]
ProductRow(k, cost, price) ==
    [col \in Range(ProductsCols) |->
        CASE col = "ProductKey" -> k
          [] col = "Unit Cost USD" -> cost
          [] col = "Unit Price USD" -> price]
CustomerRow(k, name, country, birthday) ==
    [col \in Range(CustomersCols) |->
        CASE col = "CustomerKey" -> k
          [] col = "Name" -> name
          [] col = "Country" -> country
          [] col = "Birthday" -> birthday]
StoreRow(k, country) ==
    [col \in Range(StoresCols) |->
        CASE col = "StoreKey" -> k
          [] col = "Country" -> country]

\* A frame without the column c (a file whose header lacks it).
Drop(frame, c) ==
    Frame(SelectSeq(frame.cols, LAMBDA x : x # c),
          [i \in 1..Len(frame.rows) |->
              [x \in Range(frame.cols) \ {c} |-> frame.rows[i][x]]])

(***************************************************************************)
(* Arithmetic on cells, as pandas computes it on float columns: a null     *)
(* operand gives null; x / 0 is null (NaN) for x = 0 and an infinity of    *)
(* the sign of x otherwise.                                                *)
(***************************************************************************)
Abs(n) == IF n < 0 THEN -n ELSE n

RECURSIVE Gcd(_, _)
Gcd(a, b) == IF b = 0 THEN a ELSE Gcd(b, a % b)

\* The float n/d (d > 0) as a reduced fraction.
Frac(n, d) == <<n \div Gcd(Abs(n), d), d \div Gcd(Abs(n), d)>>

Sign(n) == IF n > 0 THEN 1 ELSE IF n < 0 THEN -1 ELSE 0

\* a * b and a - b on two number cells; a cell <<n, d>> is the float n/d.
Mul(a, b) ==
    IF a = Null \/ b = Null THEN Null
    ELSE IF Len(a) = 1 /\ Len(b) = 1 THEN <<a[1] * b[1]>>
    ELSE Frac(a[1] * b[1],
              (IF Len(a) = 2 THEN a[2] ELSE 1) * (IF Len(b) = 2 THEN b[2] ELSE 1))
Sub(a, b) ==
    IF a = Null \/ b = Null THEN Null
    ELSE IF Len(a) = 1 /\ Len(b) = 1 THEN <<a[1] - b[1]>>
    ELSE LET da == IF Len(a) = 2 THEN a[2] ELSE 1
             db == IF Len(b) = 2 THEN b[2] ELSE 1
         IN  Frac(a[1] * db - b[1] * da, da * db)

\* a / b on two number cells.
Div(a, b) ==
    IF a = Null \/ b = Null THEN Null
    ELSE IF b[1] = 0
         THEN (IF a[1] = 0 THEN Null ELSE <<Sign(a[1]), 0>>)
         ELSE Frac(a[1] * Sign(b[1]), Abs(b[1]))

\* x * k on a float x (k > 0): an infinity stays one.
Scale(x, k) ==
    IF x = Null THEN Null
    ELSE IF x[2] = 0 THEN x
    ELSE Frac(x[1] * k, x[2])

IsInf(x) == Len(x) = 2 /\ x[2] = 0

\* The float x is below (at most) the integer b; an infinity compares by sign.
FloatLt(x, b) == IF x[2] = 0 THEN x[1] < 0 ELSE x[1] < b * x[2]
FloatLe(x, b) == IF x[2] = 0 THEN x[1] < 0 ELSE x[1] <= b * x[2]

(***************************************************************************)
(* Spec: sales_analysis.py, section 3.  The three merges of the script,    *)
(* one statement each, on tables drawn from the bounded sets below.  A     *)
(* missing key column raises KeyError and ends the script.                 *)
(***************************************************************************)
\* The order date of the merged rows: 2019-04-14.
OrderDay == <<18000>>

MergeSalesRows ==
    {SalesRow(<<1>>, OrderDay, Null, <<c>>, <<s>>, <<p>>, <<1>>) :
        c \in Keys, s \in Keys, p \in Keys}
MergeProductRows == {ProductRow(<<k>>, <<10 + k>>, <<20 + k>>) : k \in Keys}
MergeCustomerRows ==
    {CustomerRow(<<k>>, <<"name">>, <<"US">>, <<8000 - k>>) : k \in Keys}
MergeStoreRows == {StoreRow(<<k>>, <<"CA">>) : k \in Keys}

\* The part of the state that the loader uses.
NoLoads ==
    /\ csv_files = <<>>
    /\ loads = <<>>

Unused ==
    /\ df = NoFrame
    /\ df2 = NoFrame
    /\ validation_results = NoReport
    /\ exchange_rates = NoFrame
    /\ report = NoReport
    /\ NoLoads

Init ==
    /\ sales \in {Frame(SalesCols, r) : r \in SeqsUpTo(MergeSalesRows, MaxFactRows)}
    /\ products \in {Frame(ProductsCols, r) : r \in SeqsUpTo(MergeProductRows, MaxProductRows)}
    /\ customers \in {Frame(CustomersCols, r) : r \in SeqsUpTo(MergeCustomerRows, MaxCustomerRows)}
    /\ stores \in {Frame(StoresCols, r) : r \in SeqsUpTo(MergeStoreRows, MaxStoreRows)}
    /\ sales_analysis = NoFrame
    /\ pc = "merge_products"
    /\ exc = "none"
    /\ Unused

\* One merge statement of the script: sales_analysis = left.merge(right, on=key).
MergeStep(left, right, key, next) ==
    /\ IF MergeRaises(left, right, key)
       THEN /\ exc' = "KeyError"
            /\ pc' = "raised"
            /\ UNCHANGED sales_analysis
       ELSE /\ sales_analysis' = Merge(left, right, key)
            /\ pc' = next
            /\ UNCHANGED exc
    /\ UNCHANGED <<exchange_rates, report, csv_files, loads,
                   sales, products, customers, stores, df, df2, validation_results>>

\* Mutant: the first merge may run before the prices are cleaned.
MergeProducts_early ==
    /\ pc \in {"merge_products", "script_prices", "script_dates"}
    /\ MergeStep(sales, products, "ProductKey", "merge_customers")

\* The first merge: the statement that follows the price cleaning
\* ("script_prices") when the script runs from its start.
MergeProducts ==
    /\ pc \in {"merge_products", "script_prices"}
    /\ MergeStep(sales, products, "ProductKey", "merge_customers")

MergeCustomers ==
    /\ pc = "merge_customers"
    /\ MergeStep(sales_analysis, customers, "CustomerKey", "merge_stores")

MergeStores ==
    /\ pc = "merge_stores"
    /\ MergeStep(sales_analysis, stores, "StoreKey", "merged")

Next == MergeProducts \/ MergeCustomers \/ MergeStores

Spec == Init /\ [][Next]_vars

\* The key column of a frame holds no value twice.
UniqueKey(frame, key) ==
    \A i, j \in 1..Len(frame.rows) :
        frame.rows[i][key] = frame.rows[j][key] => i = j

\* Some row of the frame has the key value of cell k.
HasKey(frame, key, k) == \E i \in 1..Len(frame.rows) : frame.rows[i][key] = k

UniqueDimensions ==
    /\ UniqueKey(products, "ProductKey")
    /\ UniqueKey(customers, "CustomerKey")
    /\ UniqueKey(stores, "StoreKey")

(***************************************************************************)
(* C1. Join cardinality: when the key column of each of the products,      *)
(* customers and stores tables holds no value twice, the table that the    *)
(* three left merges produce has exactly as many rows as the sales table,  *)
(* whether or not the foreign keys of the sales rows have a matching row.  *)
(***************************************************************************)
C1_JoinCardinality ==
    (pc = "merged" /\ UniqueDimensions)
        => Len(sales_analysis.rows) = Len(sales.rows)

\* A merged run over unique dimensions in which a sales row has a matched
\* product key and an unmatched customer key.
C1_Witness ==
    /\ pc = "merged"
    /\ UniqueDimensions
    /\ Len(products.rows) = 2
    /\ \E i \in 1..Len(sales.rows) :
          /\ HasKey(products, "ProductKey", sales.rows[i]["ProductKey"])
          /\ ~HasKey(customers, "CustomerKey", sales.rows[i]["CustomerKey"])

ProductAttrs == {"Unit Cost USD", "Unit Price USD"}
CustomerAttrs == {"Name", "Country_x", "Birthday"}
StoreAttrs == {"Country_y"}

\* The merged row m carries the cells of the sales row l.
Carries(m, l) == \A c \in Range(SalesCols) : m[c] = l[c]

NullAttrs(m, attrs) == \A c \in attrs : c \in DOMAIN m /\ m[c] = Null

(***************************************************************************)
(* C2. Unmatched foreign keys: a sales row whose ProductKey, CustomerKey   *)
(* or StoreKey has no row in the dimension table is kept by the merges:    *)
(* the merged table has a row with the same sales cells, and in every row  *)
(* that carries those sales cells each attribute column of the unmatched   *)
(* dimension is null.  The merges do not raise.                            *)
(***************************************************************************)
C2_UnmatchedKept ==
    /\ pc # "raised"
    /\ exc = "none"
    /\ pc = "merged" =>
        \A i \in 1..Len(sales.rows) :
             LET l == sales.rows[i]
             IN  /\ \E j \in 1..Len(sales_analysis.rows) :
                        Carries(sales_analysis.rows[j], l)
                 /\ \A j \in 1..Len(sales_analysis.rows) :
                        Carries(sales_analysis.rows[j], l) =>
                          /\ ~HasKey(products, "ProductKey", l["ProductKey"])
                               => NullAttrs(sales_analysis.rows[j], ProductAttrs)
                          /\ ~HasKey(customers, "CustomerKey", l["CustomerKey"])
                               => NullAttrs(sales_analysis.rows[j], CustomerAttrs)
                          /\ ~HasKey(stores, "StoreKey", l["StoreKey"])
                               => NullAttrs(sales_analysis.rows[j], StoreAttrs)

\* A merged run with a sales row whose store key is unmatched while its
\* product key is matched (so the row has null and non-null attributes).
C2_Witness ==
    /\ pc = "merged"
    /\ \E i \in 1..Len(sales.rows) :
          /\ ~HasKey(stores, "StoreKey", sales.rows[i]["StoreKey"])
          /\ Len(stores.rows) > 0
          /\ HasKey(products, "ProductKey", sales.rows[i]["ProductKey"])
          /\ \E j \in 1..Len(sales_analysis.rows) :
                /\ Carries(sales_analysis.rows[j], sales.rows[i])
                /\ sales_analysis.rows[j]["Unit Cost USD"] # Null

(***************************************************************************)
(* The calendar fields of a date, a date being a number of days since      *)
(* 1970-01-01 (pandas: Series.dt.year, .month, .quarter, .day_name(),      *)
(* .month_name(), .isocalendar().week).                                    *)
(***************************************************************************)
CivilFromDays(days) ==
    LET z == days + 719468
        era == z \div 146097
        doe == z - era * 146097
        yoe == (doe - doe \div 1460 + doe \div 36524 - doe \div 146096) \div 365
        doy == doe - (365 * yoe + yoe \div 4 - yoe \div 100)
        mp == (5 * doy + 2) \div 153
        d == doy - (153 * mp + 2) \div 5 + 1
        m == IF mp < 10 THEN mp + 3 ELSE mp - 9
    IN  [y |-> yoe + era * 400 + (IF m <= 2 THEN 1 ELSE 0), m |-> m, d |-> d]

IsLeap(y) == (y % 4 = 0 /\ y % 100 # 0) \/ y % 400 = 0

DaysBeforeMonth == <<0, 31, 59, 90, 120, 151, 181, 212, 243, 273, 304, 334>>

DayOfYear(c) ==
    DaysBeforeMonth[c.m] + c.d + (IF c.m > 2 /\ IsLeap(c.y) THEN 1 ELSE 0)

\* 0 = Monday .. 6 = Sunday; 1970-01-01 was a Thursday.
Weekday(days) == (days + 3) % 7

DayNames == <<"Monday", "Tuesday", "Wednesday", "Thursday", "Friday",
              "Saturday", "Sunday">>
MonthNames == <<"January", "February", "March", "April", "May", "June", "July",
                "August", "September", "October", "November", "December">>

WeeksInYear(y) ==
    LET P(x) == (x + x \div 4 - x \div 100 + x \div 400) % 7
    IN  IF P(y) = 4 \/ P(y - 1) = 3 THEN 53 ELSE 52

IsoWeek(days) ==
    LET c == CivilFromDays(days)
        w == (DayOfYear(c) - (Weekday(days) + 1) + 10) \div 7
    IN  IF w < 1 THEN WeeksInYear(c.y - 1)
        ELSE IF w > WeeksInYear(c.y) THEN 1
        ELSE w

Year(date) == IF date = Null THEN Null ELSE <<CivilFromDays(date[1]).y>>
Month(date) == IF date = Null THEN Null ELSE <<CivilFromDays(date[1]).m>>
Quarter(date) ==
    IF date = Null THEN Null ELSE <<(CivilFromDays(date[1]).m - 1) \div 3 + 1>>
DayName(date) == IF date = Null THEN Null ELSE <<DayNames[Weekday(date[1]) + 1]>>
MonthName(date) ==
    IF date = Null THEN Null ELSE <<MonthNames[CivilFromDays(date[1]).m]>>
WeekOfYear(date) == IF date = Null THEN Null ELSE <<IsoWeek(date[1])>>

(***************************************************************************)
(* scripts/data_cleaning.py: create_analysis_features.                     *)
(***************************************************************************)
\* df[c] = values: an existing column is replaced where it stands, a new one
\* is appended; values[i] is the new cell of row i.
SetCol(frame, c, values) ==
    Frame(IF HasCol(frame, c) THEN frame.cols ELSE Append(frame.cols, c),
          [i \in 1..Len(frame.rows) |->
              [x \in Range(frame.cols) \cup {c} |->
                  IF x = c THEN values[i] ELSE frame.rows[i][x]]])

HasCols(frame, cs) == \A c \in cs : HasCol(frame, c)

\* Mutant: the revenue adds to the Revenue the row already has.
Revenue_compounding(r) ==
    IF "Revenue" \in DOMAIN r
    THEN Sub(r["Revenue"], Mul(<<-1>>, Mul(r["Quantity"], r["Unit Price USD"])))
    ELSE Mul(r["Quantity"], r["Unit Price USD"])

Revenue(r) == Mul(r["Quantity"], r["Unit Price USD"])
\* Mutant: the cost is taken from the price column.
Cost_price(r) == Mul(r["Quantity"], r["Unit Price USD"])

Cost(r) == Mul(r["Quantity"], r["Unit Cost USD"])
Profit(r) == Sub(r["Revenue"], r["Cost"])
ProfitMargin(r) == Scale(Div(r["Profit"], r["Revenue"]), 100)

\* pd.cut(x, bins=[0, 25, 35, 45, 55, 65, 100], labels=[...]): the default
\* right=True makes each bin (bins[i], bins[i+1]]; outside every bin is null.
AgeBins == <<0, 25, 35, 45, 55, 65, 100>>
AgeLabels == <<"18-25", "26-35", "36-45", "46-55", "56-65", "65+">>

\* Mutant: right=False, each bin [bins[i], bins[i+1]).
Cut_left(x) ==
    IF x = Null THEN Null
    ELSE LET hits == {i \in 1..Len(AgeLabels) :
                         ~FloatLt(x, AgeBins[i]) /\ FloatLt(x, AgeBins[i + 1])}
         IN  IF hits = {} THEN Null ELSE <<AgeLabels[CHOOSE i \in hits : TRUE]>>

Cut(x) ==
    IF x = Null THEN Null
    ELSE LET hits == {i \in 1..Len(AgeLabels) :
                         ~FloatLe(x, AgeBins[i]) /\ FloatLe(x, AgeBins[i + 1])}
         IN  IF hits = {} THEN Null ELSE <<AgeLabels[CHOOSE i \in hits : TRUE]>>

\* (Order Date - Birthday).dt.days / 365.25, the float 4 * days / 1461.
CustomerAge(r) ==
    IF r["Order Date"] = Null \/ r["Birthday"] = Null THEN Null
    ELSE Frac(4 * (r["Order Date"][1] - r["Birthday"][1]), 1461)

AgeGroup(r) == Cut(r["Customer Age"])

\* Mutant: an order without delivery date counts as delivered on its day.
DeliveryDays_pending(r) ==
    IF r["Delivery Date"] = Null /\ r["Order Date"] # Null THEN <<0>>
    ELSE Sub(r["Delivery Date"], r["Order Date"])

DeliveryDays(r) == Sub(r["Delivery Date"], r["Order Date"])

OrderYear(r) == Year(r["Order Date"])
OrderMonth(r) == Month(r["Order Date"])
OrderQuarter(r) == Quarter(r["Order Date"])
OrderDayName(r) == DayName(r["Order Date"])
OrderMonthName(r) == MonthName(r["Order Date"])
OrderWeek(r) == WeekOfYear(r["Order Date"])

FinancialFeatures(frame) ==
    IF HasCols(frame, {"Quantity", "Unit Price USD", "Unit Cost USD"})
    THEN LET n == Len(frame.rows)
             f1 == SetCol(frame, "Revenue", [i \in 1..n |-> Revenue(frame.rows[i])])
             f2 == SetCol(f1, "Cost", [i \in 1..n |-> Cost(f1.rows[i])])
             f3 == SetCol(f2, "Profit", [i \in 1..n |-> Profit(f2.rows[i])])
         IN  SetCol(f3, "Profit Margin", [i \in 1..n |-> ProfitMargin(f3.rows[i])])
    ELSE frame

DateFeatures(frame) ==
    IF HasCol(frame, "Order Date")
    THEN LET n == Len(frame.rows)
             f1 == SetCol(frame, "Year", [i \in 1..n |-> OrderYear(frame.rows[i])])
             f2 == SetCol(f1, "Month", [i \in 1..n |-> OrderMonth(f1.rows[i])])
             f3 == SetCol(f2, "Quarter", [i \in 1..n |-> OrderQuarter(f2.rows[i])])
             f4 == SetCol(f3, "Day of Week", [i \in 1..n |-> OrderDayName(f3.rows[i])])
             f5 == SetCol(f4, "Month Name", [i \in 1..n |-> OrderMonthName(f4.rows[i])])
         IN  SetCol(f5, "Week of Year", [i \in 1..n |-> OrderWeek(f5.rows[i])])
    ELSE frame

AgeFeatures(frame) ==
    IF HasCols(frame, {"Order Date", "Birthday"})
    THEN LET n == Len(frame.rows)
             f1 == SetCol(frame, "Customer Age",
                          [i \in 1..n |-> CustomerAge(frame.rows[i])])
         IN  SetCol(f1, "Age Group", [i \in 1..n |-> AgeGroup(f1.rows[i])])
    ELSE frame

\* Mutant: the delivery time is derived inside the customer age's guard.
DeliveryFeatures_coupled(frame) ==
    IF HasCols(frame, {"Delivery Date", "Order Date", "Birthday"})
    THEN SetCol(frame, "Delivery Days",
                [i \in 1..Len(frame.rows) |-> DeliveryDays(frame.rows[i])])
    ELSE frame

DeliveryFeatures(frame) ==
    IF HasCols(frame, {"Delivery Date", "Order Date"})
    THEN SetCol(frame, "Delivery Days",
                [i \in 1..Len(frame.rows) |-> DeliveryDays(frame.rows[i])])
    ELSE frame

create_analysis_features(sales_analysis_df) ==
    DeliveryFeatures(AgeFeatures(DateFeatures(FinancialFeatures(sales_analysis_df))))

(***************************************************************************)
(* SpecFeatures: create_analysis_features applied to a joined table, and   *)
(* then to its own result.  The joined table is drawn from the rows and    *)
(* the headers below.                                                      *)
(***************************************************************************)
MaxFeatureRows == 1

FeatureCols == <<"Order Date", "Delivery Date", "Quantity", "Unit Cost USD",
                 "Unit Price USD", "Birthday">>

\* <<Quantity, Unit Price USD, Unit Cost USD>>
FinancialCases ==
    { <<(<<2>>), (<<3>>), (<<2>>)>>,      \* revenue 6, profit 2
      <<(<<0>>), (<<3>>), (<<2>>)>>,      \* revenue 0, profit 0
      <<(<<2>>), (<<0>>), (<<5>>)>>,      \* revenue 0, profit -10
      <<(<<2>>), (<<0>>), (<<0>>)>>,      \* price and cost 0
      <<Null, (<<3>>), (<<2>>)>> }        \* no quantity

\* <<Order Date, Birthday, Delivery Date>>; 18000 is 2019-04-14.
DateCases ==
    { <<(<<18000>>), (<<18000 - 23741>>), (<<18003>>)>>,   \* age 64.9993
      <<(<<18000>>), (<<18000 - 23742>>), Null>>,          \* age 65.002
      <<(<<18000>>), (<<18000 - 36525>>), (<<18003>>)>>,   \* age 100.0
      <<(<<18000>>), (<<18000 - 36526>>), (<<18003>>)>>,   \* age 100.003
      <<(<<18000>>), (<<18000 - 9131>>), (<<18000>>)>>,    \* age 24.9993
      <<(<<18000>>), (<<18000>>), Null>>,                  \* age 0.0
      <<(<<18000>>), Null, (<<18003>>)>>,                  \* no birthday
      <<Null, (<<18000 - 23741>>), (<<18003>>)>> }         \* no order date

FeatureRow(fin, dates) ==
    [col \in Range(FeatureCols) |->
        CASE col = "Order Date" -> dates[1]
          [] col = "Delivery Date" -> dates[3]
          [] col = "Quantity" -> fin[1]
          [] col = "Unit Cost USD" -> fin[3]
          [] col = "Unit Price USD" -> fin[2]
          [] col = "Birthday" -> dates[2]]

FeatureRows == {FeatureRow(fin, dates) : fin \in FinancialCases, dates \in DateCases}

\* The column a header lacks ("": none).
MissingCols == {"", "Quantity", "Unit Price USD", "Unit Cost USD",
                "Order Date", "Birthday", "Delivery Date"}

InitFeatures ==
    /\ sales_analysis \in
          {Drop(Frame(FeatureCols, r), c) :
              r \in SeqsUpTo(FeatureRows, MaxFeatureRows), c \in MissingCols}
    /\ sales = NoFrame
    /\ products = NoFrame
    /\ customers = NoFrame
    /\ stores = NoFrame
    /\ pc = "derive"
    /\ exc = "none"
    /\ Unused

(***************************************************************************)
(* A call of a function that starts with X = argument.copy(), writes to X  *)
(* and returns X.  The call is a record: the caller's table, the table the *)
(* function works on, and whether the two share their cells, in which case *)
(* a write to the one is a write to the other.                             *)
(***************************************************************************)
\* Mutant: the function works on the argument itself (X = argument).
copy_alias(frame) == [caller |-> frame, local |-> frame, shared |-> TRUE]

\* DataFrame.copy(): a new table with the cells of the argument.
copy(frame) == [caller |-> frame, local |-> frame, shared |-> FALSE]

\* The function's writes on its table, which come to result, and its return.
Return(call, result) ==
    [call EXCEPT !.local = result,
                 !.caller = IF call.shared THEN result ELSE @]

\* df = create_analysis_features(sales_analysis)
CreateAnalysisFeatures ==
    /\ pc = "derive"
    /\ LET call == Return(copy(sales_analysis),
                          create_analysis_features(sales_analysis))
       IN  /\ df' = call.local
           /\ sales_analysis' = call.caller
    /\ pc' = "rederive"
    /\ UNCHANGED <<exchange_rates, report, csv_files, loads,
                   sales, products, customers, stores, exc,
                   df2, validation_results>>

\* df2 = create_analysis_features(df)
CreateAnalysisFeaturesAgain ==
    /\ pc = "rederive"
    /\ LET call == Return(copy(df), create_analysis_features(df))
       IN  /\ df2' = call.local
           /\ df' = call.caller
    /\ pc' = "derived"
    /\ UNCHANGED <<exchange_rates, report, csv_files, loads,
                   sales, products, customers, stores, sales_analysis, exc,
                   validation_results>>

NextFeatures == CreateAnalysisFeatures \/ CreateAnalysisFeaturesAgain

SpecFeatures == InitFeatures /\ [][NextFeatures]_vars

Derived == pc \in {"rederive", "derived"}

Rows(frame) == {frame.rows[i] : i \in 1..Len(frame.rows)}

(***************************************************************************)
(* C3. Null propagation in Profit Margin: in the table returned by         *)
(* create_analysis_features every row whose Revenue is 0 has a null        *)
(* 'Profit Margin', whatever its Cost and Profit are: never an infinity.   *)
(* The code divides Profit by Revenue as floats, so a row of Revenue 0 and *)
(* Profit other than 0 gets an infinite margin: the statement is violated. *)
(***************************************************************************)
C3_ZeroRevenueNullMargin ==
    (Derived /\ HasCol(df, "Profit Margin")) =>
        \A r \in Rows(df) : r["Revenue"] = <<0>> => r["Profit Margin"] = Null

\* What the code does there: the margin is null exactly when Revenue or
\* Profit is null or both are 0, and infinite when only Revenue is 0.
C3_CodeMargin ==
    (Derived /\ HasCol(df, "Profit Margin")) =>
        \A r \in Rows(df) :
            r["Revenue"] = <<0>> =>
                IF r["Profit"] = <<0>> THEN r["Profit Margin"] = Null
                ELSE IsInf(r["Profit Margin"])

(***************************************************************************)
(* C5. No upper bound on the last age bucket: in the table returned by     *)
(* create_analysis_features every row whose Customer Age is at least 65,   *)
(* ages above 100 included, has Age Group '65+'.  The last bin of the code *)
(* ends at 100, so an older customer gets a null Age Group: violated.      *)
(***************************************************************************)
C5_NoUpperBound ==
    (Derived /\ HasCol(df, "Age Group")) =>
        \A r \in Rows(df) :
            (r["Customer Age"] # Null /\ ~FloatLt(r["Customer Age"], 65))
                => r["Age Group"] = <<"65+">>

(***************************************************************************)
(* C6. Idempotence of derivation: create_analysis_features applied to its  *)
(* own result returns a table with the same columns, in the same order,    *)
(* and the same cells in every row (the derived columns among them).       *)
(***************************************************************************)
C6_Idempotent == pc = "derived" => df2 = df

\* A table derived twice in which every feature group ran, with a row whose
\* derived cells are all present.
C6_Witness ==
    /\ pc = "derived"
    /\ HasCols(df, {"Revenue", "Cost", "Profit", "Profit Margin", "Year", "Month",
                    "Quarter", "Day of Week", "Week of Year", "Customer Age",
                    "Age Group", "Delivery Days"})
    /\ \E r \in Rows(df2) :
          /\ r["Revenue"] = <<6>>
          /\ r["Profit Margin"] = Frac(100, 3)
          /\ r["Year"] = <<2019>>
          /\ r["Age Group"] = <<"56-65">>
          /\ r["Delivery Days"] = <<3>>

(***************************************************************************)
(* SpecAgeGroup: the bucketing of create_analysis_features (pd.cut of the  *)
(* 'Customer Age' column) on ages drawn around the bin edges, in           *)
(* thousandths of a year.                                                  *)
(***************************************************************************)
MaxAgeDelta == 4

AgeSamples ==
    {Frac(AgeBins[i] * 1000 + d, 1000) :
        i \in 1..Len(AgeBins), d \in (-MaxAgeDelta)..MaxAgeDelta}

InitAgeGroup ==
    /\ df \in {Frame(<<"Customer Age">>, <<[c \in {"Customer Age"} |-> a]>>) :
                  a \in AgeSamples}
    /\ df2 = NoFrame
    /\ validation_results = NoReport
    /\ exchange_rates = NoFrame
    /\ report = NoReport
    /\ NoLoads
    /\ sales_analysis = NoFrame
    /\ sales = NoFrame
    /\ products = NoFrame
    /\ customers = NoFrame
    /\ stores = NoFrame
    /\ pc = "cut"
    /\ exc = "none"

\* df['Age Group'] = pd.cut(df['Customer Age'], bins=..., labels=...)
CutAgeGroups ==
    /\ pc = "cut"
    /\ df' = SetCol(df, "Age Group", [i \in 1..Len(df.rows) |-> AgeGroup(df.rows[i])])
    /\ pc' = "bucketed"
    /\ UNCHANGED <<exchange_rates, report, csv_files, loads,
                   sales, products, customers, stores, sales_analysis, exc,
                   df2, validation_results>>

NextAgeGroup == CutAgeGroups

SpecAgeGroup == InitAgeGroup /\ [][NextAgeGroup]_vars

\* The inner bin edges 25, 35, 45, 55, 65 are AgeBins[2..6]; the bucket that
\* ends at AgeBins[i] is AgeLabels[i - 1], the one that starts there AgeLabels[i].
InnerEdges == 2..(Len(AgeBins) - 1)

MinOrderDate == 10957   \* pd.Timestamp('2000-01-01')
MaxOrderDate == 21915   \* pd.Timestamp('2030-01-01')

Column(frame, c) == [i \in 1..Len(frame.rows) |-> frame.rows[i][c]]

\* (column >= 0).all(): a null cell compares False.
AllNonNegative(col) == \A i \in 1..Len(col) : col[i] # Null /\ col[i][1] >= 0

\* column.duplicated().any(): some cell equals an earlier one (nulls are equal).
AnyDuplicated(col) == \E i, j \in 1..Len(col) : i < j /\ col[i] = col[j]

\* column.min(), column.max(): nulls are skipped; null when nothing is left.
Present(col) == {col[i][1] : i \in {n \in 1..Len(col) : col[n] # Null}}
Min(col) ==
    IF Present(col) = {} THEN Null
    ELSE <<CHOOSE v \in Present(col) : \A w \in Present(col) : v <= w>>
Max(col) ==
    IF Present(col) = {} THEN Null
    ELSE <<CHOOSE v \in Present(col) : \A w \in Present(col) : v >= w>>

\* min_date >= Timestamp and max_date <= Timestamp: NaT compares False.
ReasonableDateRange(s) ==
    LET min_date == Min(Column(s, "Order Date"))
        max_date == Max(Column(s, "Order Date"))
    IN  /\ min_date # Null /\ min_date[1] >= MinOrderDate
        /\ max_date # Null /\ max_date[1] <= MaxOrderDate

NoNegativePrices(p) ==
    /\ AllNonNegative(Column(p, "Unit Cost USD"))
    /\ AllNonNegative(Column(p, "Unit Price USD"))

RequiredRules(s, p, c, st) ==
    [rule \in {"Sales has required columns", "Products has required columns",
               "Customers has required columns", "Stores has required columns"} |->
        CASE rule = "Sales has required columns" ->
                HasCols(s, {"Order Number", "CustomerKey", "ProductKey", "StoreKey"})
          [] rule = "Products has required columns" ->
                HasCols(p, {"ProductKey", "Unit Cost USD", "Unit Price USD"})
          [] rule = "Customers has required columns" ->
                HasCols(c, {"CustomerKey", "Name"})
          [] rule = "Stores has required columns" ->
                HasCols(st, {"StoreKey", "Country"})]

PriceRule(p) ==
    IF HasCol(p, "Unit Cost USD") /\ HasCol(p, "Unit Price USD")
    THEN "No negative prices" :> NoNegativePrices(p)
    ELSE NoReport

DateRule(s) ==
    IF HasCol(s, "Order Date")
    THEN "Reasonable date range" :> ReasonableDateRange(s)
    ELSE NoReport

DuplicateRules(p, c, st) ==
    [rule \in {"No duplicate ProductKeys", "No duplicate CustomerKeys",
               "No duplicate StoreKeys"} |->
        CASE rule = "No duplicate ProductKeys" ->
                ~AnyDuplicated(Column(p, "ProductKey"))
          [] rule = "No duplicate CustomerKeys" ->
                ~AnyDuplicated(Column(c, "CustomerKey"))
          [] rule = "No duplicate StoreKeys" ->
                ~AnyDuplicated(Column(st, "StoreKey"))]

\* products['ProductKey'], customers['CustomerKey'], stores['StoreKey'].
ValidateRaises(s, p, c, st) ==
    ~HasCol(p, "ProductKey") \/ ~HasCol(c, "CustomerKey") \/ ~HasCol(st, "StoreKey")

validate_cleaned_data(s, p, c, st) ==
    RequiredRules(s, p, c, st) @@ PriceRule(p) @@ DateRule(s)
        @@ DuplicateRules(p, c, st)

(***************************************************************************)
(* SpecValidate: validate_cleaned_data on four tables drawn from the rows  *)
(* below, one of them possibly read from a file whose header lacks a       *)
(* column.                                                                 *)
(***************************************************************************)
ValidateSalesRows ==
    {SalesRow(<<1>>, od, Null, <<1>>, <<1>>, <<1>>, <<1>>) :
        od \in {<<10956>>, <<10957>>, <<21915>>, <<21916>>, Null}}

ValidateProductRows ==
    { ProductRow(<<1>>, <<2>>, <<3>>),
      ProductRow(<<2>>, <<2>>, <<3>>),
      ProductRow(<<1>>, <<-1>>, <<3>>),     \* a negative cost
      ProductRow(<<2>>, Null, <<3>>) }      \* a cost that failed coercion

\* <<table, column>>: the column that the header of the table lacks.
MissingColumns ==
    { <<"none", "">>, <<"products", "ProductKey">>, <<"products", "Unit Cost USD">>,
      <<"customers", "CustomerKey">>, <<"stores", "StoreKey">>,
      <<"sales", "Order Date">> }

Without(frame, name, missing) ==
    IF missing[1] = name THEN Drop(frame, missing[2]) ELSE frame

InitValidate ==
    \E missing \in MissingColumns :
        /\ sales \in {Without(Frame(SalesCols, r), "sales", missing) :
                         r \in SeqsUpTo(ValidateSalesRows, MaxFactRows)}
        /\ products \in {Without(Frame(ProductsCols, r), "products", missing) :
                            r \in SeqsUpTo(ValidateProductRows, MaxProductRows)}
        /\ customers \in {Without(Frame(CustomersCols, r), "customers", missing) :
                             r \in SeqsUpTo(MergeCustomerRows, MaxCustomerRows)}
        /\ stores \in {Without(Frame(StoresCols, r), "stores", missing) :
                          r \in SeqsUpTo(MergeStoreRows, MaxStoreRows)}
        /\ sales_analysis = NoFrame
        /\ pc = "validate"
        /\ exc = "none"
        /\ Unused

\* validation_results = validate_cleaned_data(sales, products, customers, stores)
ValidateCleanedData ==
    /\ pc = "validate"
    /\ IF ValidateRaises(sales, products, customers, stores)
       THEN /\ exc' = "KeyError"
            /\ pc' = "raised"
            /\ UNCHANGED validation_results
       ELSE /\ validation_results' =
                   validate_cleaned_data(sales, products, customers, stores)
            /\ pc' = "validated"
            /\ UNCHANGED exc
    /\ UNCHANGED <<exchange_rates, report, csv_files, loads,
                   sales, products, customers, stores, sales_analysis, df, df2>>

NextValidate == ValidateCleanedData

SpecValidate == InitValidate /\ [][NextValidate]_vars

AllRules ==
    {"Sales has required columns", "Products has required columns",
     "Customers has required columns", "Stores has required columns",
     "No negative prices", "Reasonable date range", "No duplicate ProductKeys",
     "No duplicate CustomerKeys", "No duplicate StoreKeys"}

\* The report has the rule, with the value False.
ReportsFalse(rule) ==
    rule \in DOMAIN validation_results /\ validation_results[rule] = FALSE

HasNegativePrice(p) ==
    \E r \in Rows(p) : \E c \in {"Unit Cost USD", "Unit Price USD"} :
        r[c] # Null /\ r[c][1] < 0

(***************************************************************************)
(* C7. Non-negativity rule and nulls: the report gives 'No negative        *)
(* prices' as false exactly when some product row has a present (non-null) *)
(* Unit Cost USD or Unit Price USD below 0; null price cells pass.         *)
(* Stated for the calls that report the rule.  Violated: the code's        *)
(* (column >= 0).all() is False for a null cell.                           *)
(***************************************************************************)
C7_NullPricePasses ==
    (pc = "validated" /\ "No negative prices" \in DOMAIN validation_results) =>
        (validation_results["No negative prices"] = FALSE
            <=> HasNegativePrice(products))

(***************************************************************************)
(* C8. The Validator never raises: for every combination of tables, those  *)
(* that lack ProductKey, CustomerKey or StoreKey included, the call of     *)
(* validate_cleaned_data returns a report.  Violated: the duplicate-key    *)
(* rules index the key column and raise KeyError when it is missing.       *)
(***************************************************************************)
C8_NeverRaises == pc # "raised" /\ exc = "none"

(***************************************************************************)
(* C9. All rules are always reported: the report returned by               *)
(* validate_cleaned_data has one boolean entry for each rule of the fixed  *)
(* set, whatever columns are present.  Violated: 'No negative prices' and  *)
(* 'Reasonable date range' are left out when their columns are missing.    *)
(***************************************************************************)
C9_AllRulesReported ==
    pc = "validated" =>
        /\ DOMAIN validation_results = AllRules
        /\ \A rule \in AllRules : validation_results[rule] \in BOOLEAN

HasDuplicateKey(frame, key) ==
    HasCol(frame, key) /\ AnyDuplicated(Column(frame, key))

\* The frame with the cells of its key column made distinct.
Rekeyed(frame, key) ==
    IF HasCol(frame, key)
    THEN Frame(frame.cols,
               [i \in 1..Len(frame.rows) |->
                   [c \in Range(frame.cols) |->
                       IF c = key THEN <<i>> ELSE frame.rows[i][c]]])
    ELSE frame

DuplicateRuleNames ==
    {"No duplicate ProductKeys", "No duplicate CustomerKeys", "No duplicate StoreKeys"}

DetectsDuplicates ==
    /\ ReportsFalse("No duplicate ProductKeys")
          <=> HasDuplicateKey(products, "ProductKey")
    /\ ReportsFalse("No duplicate CustomerKeys")
          <=> HasDuplicateKey(customers, "CustomerKey")
    /\ ReportsFalse("No duplicate StoreKeys")
          <=> HasDuplicateKey(stores, "StoreKey")

OtherRulesUnchanged ==
    LET distinct == validate_cleaned_data(sales, Rekeyed(products, "ProductKey"),
                        Rekeyed(customers, "CustomerKey"), Rekeyed(stores, "StoreKey"))
    IN  \A rule \in DOMAIN validation_results \ DuplicateRuleNames :
            rule \in DOMAIN distinct /\ validation_results[rule] = distinct[rule]

(***************************************************************************)
(* C10. Uniqueness violation detection: after the call, for each of the    *)
(* products, customers and stores tables, the report gives 'No duplicate   *)
(* ...Keys' as false if and only if the table has two rows with the same   *)
(* key value, and every other rule of the report has the value it has when *)
(* the keys of the tables are made distinct.  Violated: when another table *)
(* lacks its key column the call raises (C8) and reports nothing.          *)
(***************************************************************************)
C10_UniquenessDetection ==
    pc # "validate" => DetectsDuplicates /\ OtherRulesUnchanged

\* What the code does: the statement of C10 holds of every call that returns.
C10_WhenReturned ==
    pc = "validated" => DetectsDuplicates /\ OtherRulesUnchanged

(***************************************************************************)
(* SpecSignature: the three merges of sales_analysis.py followed by        *)
(* validate_cleaned_data on the same four tables.  Each dimension table    *)
(* may hold a key more than once.                                          *)
(***************************************************************************)
MaxDimensionRows == 2

SignatureSalesRows ==
    {SalesRow(<<1>>, OrderDay, Null, <<k>>, <<k>>, <<k>>, <<1>>) : k \in Keys}

InitSignature ==
    /\ sales \in {Frame(SalesCols, r) : r \in SeqsUpTo(SignatureSalesRows, MaxFactRows)}
    /\ products \in {Frame(ProductsCols, r) :
                        r \in SeqsUpTo(MergeProductRows, MaxDimensionRows)}
    /\ customers \in {Frame(CustomersCols, r) :
                         r \in SeqsUpTo(MergeCustomerRows, MaxDimensionRows)}
    /\ stores \in {Frame(StoresCols, r) :
                      r \in SeqsUpTo(MergeStoreRows, MaxDimensionRows)}
    /\ sales_analysis = NoFrame
    /\ pc = "merge_products"
    /\ exc = "none"
    /\ Unused

\* validation_results = validate_cleaned_data(sales, products, customers, stores),
\* called once the tables are merged.
ValidateMerged ==
    /\ pc = "merged"
    /\ IF ValidateRaises(sales, products, customers, stores)
       THEN /\ exc' = "KeyError"
            /\ pc' = "raised"
            /\ UNCHANGED validation_results
       ELSE /\ validation_results' =
                   validate_cleaned_data(sales, products, customers, stores)
            /\ pc' = "validated"
            /\ UNCHANGED exc
    /\ UNCHANGED <<exchange_rates, report, csv_files, loads,
                   sales, products, customers, stores, sales_analysis, df, df2>>

NextSignature == MergeProducts \/ MergeCustomers \/ MergeStores \/ ValidateMerged

SpecSignature == InitSignature /\ [][NextSignature]_vars

\* The dimension tables of a run: frame, key column, uniqueness rule.
Dimensions ==
    { [frame |-> products, key |-> "ProductKey", rule |-> "No duplicate ProductKeys"],
      [frame |-> customers, key |-> "CustomerKey", rule |-> "No duplicate CustomerKeys"],
      [frame |-> stores, key |-> "StoreKey", rule |-> "No duplicate StoreKeys"] }

\* The number of rows of the frame whose key cell is k.
KeyCount(frame, key, k) ==
    Cardinality({i \in 1..Len(frame.rows) : frame.rows[i][key] = k})

\* The number of merged rows that one sales row gives with a dimension.
Multiplicity(d, l) ==
    IF KeyCount(d.frame, d.key, l[d.key]) = 0 THEN 1
    ELSE KeyCount(d.frame, d.key, l[d.key])

\* The number of rows of the merged table that carry the cells of sales row l.
Copies(l) ==
    Cardinality({j \in 1..Len(sales_analysis.rows) : Carries(sales_analysis.rows[j], l)})

\* The number of sales rows with the cells of sales row l.
Same(l) == Cardinality({i \in 1..Len(sales.rows) : sales.rows[i] = l})

(***************************************************************************)
(* C11. Corrupt dimension signature: the merges do not prevent duplicated  *)
(* dimension keys and do not raise.  When a dimension table holds k > 1    *)
(* rows with a key that a sales row references, the merged table has more  *)
(* rows than the sales table, that sales row appears k times for each      *)
(* pairing with the other two dimensions (exactly k times when those match *)
(* it at most once and no other sales row has its cells), and              *)
(* validate_cleaned_data on the same tables reports the dimension's        *)
(* 'No duplicate ...Keys' rule as false.                                   *)
(***************************************************************************)
C11_CorruptSignature ==
    /\ pc # "raised"
    /\ pc = "validated" =>
        \A d \in Dimensions : \A i \in 1..Len(sales.rows) :
            LET l == sales.rows[i]
                k == KeyCount(d.frame, d.key, l[d.key])
                others == Dimensions \ {d}
            IN  k > 1 =>
                  /\ Len(sales_analysis.rows) > Len(sales.rows)
                  /\ \E a, b \in others :
                        /\ a # b
                        /\ Copies(l) = k * Same(l) * Multiplicity(a, l)
                                         * Multiplicity(b, l)
                  /\ ((\A o \in others : Multiplicity(o, l) = 1) /\ Same(l) = 1)
                        => Copies(l) = k
                  /\ ReportsFalse(d.rule)

\* A validated run in which the stores table holds two rows of a key that
\* a sales row references, the other dimensions matching that row once.
C11_Witness ==
    /\ pc = "validated"
    /\ \E i \in 1..Len(sales.rows) :
          /\ KeyCount(stores, "StoreKey", sales.rows[i]["StoreKey"]) = 2
          /\ KeyCount(products, "ProductKey", sales.rows[i]["ProductKey"]) = 1
          /\ KeyCount(customers, "CustomerKey", sales.rows[i]["CustomerKey"]) = 1
          /\ Copies(sales.rows[i]) = 2
    /\ validation_results["No duplicate StoreKeys"] = FALSE
    /\ validation_results["No duplicate ProductKeys"] = TRUE

\* The merged row m has, in column c, the cell that the row of the frame
\* with the key cell k has in the column attr (null when no row has the key).
CellOf(m, c, frame, key, k, attr) ==
    IF HasKey(frame, key, k)
    THEN \E i \in 1..Len(frame.rows) :
            frame.rows[i][key] = k /\ m[c] = frame.rows[i][attr]
    ELSE m[c] = Null

\* The merged table carries the customer's and the store's Country in the
\* columns named cc and sc, and no column named Country.
CarriesBothCountries(cc, sc) ==
    /\ HasCols(sales_analysis, {cc, sc})
    /\ ~HasCol(sales_analysis, "Country")
    /\ \A m \in Rows(sales_analysis) :
          /\ CellOf(m, cc, customers, "CustomerKey", m["CustomerKey"], "Country")
          /\ CellOf(m, sc, stores, "StoreKey", m["StoreKey"], "Country")

(***************************************************************************)
(* C12, as stated. Collision naming in the join: the customers and the     *)
(* stores table both have a Country column, and the merged table carries   *)
(* both, named by the role of the source table: 'Country (customer)' and   *)
(* 'Country (store)'.  Violated: the merge names them by its suffixes.     *)
(***************************************************************************)
C12_RoleSuffix ==
    pc = "merged" => CarriesBothCountries("Country (customer)", "Country (store)")

(***************************************************************************)
(* C12, amended. The merged table carries both Country columns, named by   *)
(* the suffixes of the merge: 'Country_x' for the customer's (the column   *)
(* already in the growing table) and 'Country_y' for the store's (the      *)
(* column of the table merged in).  Until the stores are merged the        *)
(* customer's column keeps the name 'Country'.                             *)
(***************************************************************************)
C12_MergeSuffix ==
    /\ pc = "merged" => CarriesBothCountries("Country_x", "Country_y")
    /\ pc = "merge_stores" =>
          /\ HasCol(sales_analysis, "Country")
          /\ \A m \in Rows(sales_analysis) :
                CellOf(m, "Country", customers, "CustomerKey", m["CustomerKey"],
                       "Country")

\* A merged row that has the Country of its customer and that of its store.
C12_Witness ==
    /\ pc = "merged"
    /\ \E m \in Rows(sales_analysis) :
          m["Country_x"] = <<"US">> /\ m["Country_y"] = <<"CA">>

(***************************************************************************)
(* analyze_csv_fields_v2.py (and explore_data_structure.py): the loop      *)
(* that reads each file of data/ with pd.read_csv, one encoding after the  *)
(* other.  A file is the sequence of its bytes, a text a sequence of code  *)
(* points.                                                                 *)
(***************************************************************************)
\* Mutant: latin-1 is tried first.
Encodings_latin_first == <<"latin-1", "utf-8", "iso-8859-1", "cp1252">>

Encodings == <<"utf-8", "latin-1", "iso-8859-1", "cp1252">>

\* bytes.decode('utf-8'): [ok |-> TRUE, text |-> the code points], or
\* [ok |-> FALSE, text |-> <<>>] for a UnicodeDecodeError.
RECURSIVE Utf8Decode(_)
Utf8Decode(b) ==
    LET IsContinuation(x) == x >= 128 /\ x <= 191
        \* the number of bytes of the sequence that starts b (0: none does)
        n == IF b[1] < 128 THEN 1
             ELSE IF /\ b[1] >= 194 /\ b[1] <= 223 /\ Len(b) >= 2
                     /\ IsContinuation(b[2]) THEN 2
             ELSE IF /\ b[1] >= 224 /\ b[1] <= 239 /\ Len(b) >= 3
                     /\ IsContinuation(b[2]) /\ IsContinuation(b[3])
                     /\ (b[1] = 224 => b[2] >= 160)
                     /\ (b[1] = 237 => b[2] <= 159) THEN 3
             ELSE IF /\ b[1] >= 240 /\ b[1] <= 244 /\ Len(b) >= 4
                     /\ IsContinuation(b[2]) /\ IsContinuation(b[3])
                     /\ IsContinuation(b[4])
                     /\ (b[1] = 240 => b[2] >= 144)
                     /\ (b[1] = 244 => b[2] <= 143) THEN 4
             ELSE 0
        codepoint ==
             CASE n = 1 -> b[1]
               [] n = 2 -> (b[1] - 192) * 64 + (b[2] - 128)
               [] n = 3 -> (b[1] - 224) * 4096 + (b[2] - 128) * 64 + (b[3] - 128)
               [] n = 4 -> (b[1] - 240) * 262144 + (b[2] - 128) * 4096
                             + (b[3] - 128) * 64 + (b[4] - 128)
        rest == Utf8Decode(SubSeq(b, n + 1, Len(b)))
    IN  IF b = <<>> THEN [ok |-> TRUE, text |-> <<>>]
        ELSE IF n = 0 \/ ~rest.ok THEN [ok |-> FALSE, text |-> <<>>]
        ELSE [ok |-> TRUE, text |-> <<codepoint>> \o rest.text]

\* bytes.decode('cp1252'): the bytes 128..159 have the code points of the
\* code page, five of them none (0); every other byte its own number.
Cp1252Decode(b) ==
    LET high == <<8364, 0, 8218, 402, 8222, 8230, 8224, 8225, 710, 8240, 352,
                  8249, 338, 0, 381, 0, 0, 8216, 8217, 8220, 8221, 8226, 8211,
                  8212, 732, 8482, 353, 8250, 339, 0, 382, 376>>
        codepoint(x) == IF x >= 128 /\ x <= 159 THEN high[x - 127] ELSE x
    IN  IF \E i \in 1..Len(b) : codepoint(b[i]) = 0
        THEN [ok |-> FALSE, text |-> <<>>]
        ELSE [ok |-> TRUE, text |-> [i \in 1..Len(b) |-> codepoint(b[i])]]

\* bytes.decode(encoding); latin-1 (alias iso-8859-1) maps every byte to the
\* code point of the same number.
\* Mutant: latin-1 decodes the ASCII bytes only.
Decode_ascii(b, encoding) ==
    CASE encoding = "utf-8" -> Utf8Decode(b)
      [] encoding = "latin-1" ->
            [ok |-> \A i \in 1..Len(b) : b[i] < 128, text |-> b]
      [] encoding = "iso-8859-1" -> [ok |-> TRUE, text |-> b]
      [] encoding = "cp1252" -> Cp1252Decode(b)

Decode(b, encoding) ==
    CASE encoding = "utf-8" -> Utf8Decode(b)
      [] encoding \in {"latin-1", "iso-8859-1"} -> [ok |-> TRUE, text |-> b]
      [] encoding = "cp1252" -> Cp1252Decode(b)

Decodes(b, encoding) == Decode(b, encoding).ok

\* text.split(sep): the pieces of a text between the separators.
RECURSIVE Split(_, _)
Split(text, sep) ==
    IF \A i \in 1..Len(text) : text[i] # sep THEN <<text>>
    ELSE LET i == CHOOSE n \in 1..Len(text) :
                      text[n] = sep /\ \A m \in 1..(n - 1) : text[m] # sep
         IN  <<SubSeq(text, 1, i - 1)>> \o Split(SubSeq(text, i + 1, Len(text)), sep)

\* pd.read_csv(file_path, encoding=encoding): the table (df = <<table>>), or
\* the exception that the call raises (df = <<>>, None).  The records of the
\* text are its lines, blank ones skipped, each split into its fields (10 is
\* the line feed, 44 the comma).  The first record names the columns; the
\* tokenizer expects of every record after the first data record at most
\* the fields of the longer of these two, and fills a shorter one with
\* nulls; fields in excess of the header at the front of the records are
\* the index; an empty field is null.
ReadCsv(b, encoding) ==
    LET d == Decode(b, encoding)
        lines == SelectSeq(Split(d.text, 10), LAMBDA l : l # <<>>)
        records == [i \in 1..Len(lines) |-> Split(lines[i], 44)]
        header == records[1]
        expected == IF Len(records) >= 2 /\ Len(records[2]) > Len(header)
                    THEN Len(records[2])
                    ELSE Len(header)
        ragged == \E i \in 3..Len(records) : Len(records[i]) > expected
        cell(record, n) ==
            IF n > Len(record) \/ record[n] = <<>> THEN Null ELSE <<record[n]>>
        position(c) == CHOOSE n \in 1..Len(header) : header[n] = c
        table ==
            Frame(header,
                  [i \in 1..(Len(records) - 1) |->
                      [c \in Range(header) |->
                          cell(records[i + 1], expected - Len(header) + position(c))]])
    IN  IF ~d.ok THEN [error |-> "UnicodeDecodeError", df |-> <<>>]
        ELSE IF records = <<>> THEN [error |-> "EmptyDataError", df |-> <<>>]
        ELSE IF ragged THEN [error |-> "ParserError", df |-> <<>>]
        ELSE [error |-> "none", df |-> <<table>>]

Load(tried, encoding, table, status, error) ==
    [tried |-> tried, encoding |-> encoding, df |-> table, status |-> status,
     error |-> error]

\* Mutant: df is not reset, so it still holds the table of the file before.
BeginLoad_stale(done) ==
    Load(<<>>, "", IF done = <<>> THEN <<>> ELSE done[Len(done)].df, "reading", "none")

\* The start of the loop body for a file: df = None, no encoding tried.
BeginLoad(done) == Load(<<>>, "", <<>>, "reading", "none")

\* One iteration of "for encoding in encodings" on the file b, with what
\* follows when the loop ends: a table breaks out of the loop, a
\* UnicodeDecodeError goes on to the next encoding and, after the last one,
\* to "if df is None: ... continue"; any other exception is caught by the
\* outer handler and the file is skipped.
Attempt(load, b) ==
    LET encoding == Encodings[Len(load.tried) + 1]
        tried == Append(load.tried, encoding)
        r == ReadCsv(b, encoding)
    IN  IF r.error = "none" THEN Load(tried, encoding, r.df, "loaded", "none")
        ELSE IF r.error = "UnicodeDecodeError"
             THEN IF Len(tried) < Len(Encodings)
                  THEN Load(tried, encoding, load.df, "reading", "none")
                  ELSE IF load.df = <<>>
                       THEN Load(tried, encoding, load.df, "skipped", "no encoding")
                       ELSE Load(tried, encoding, load.df, "loaded", "none")
             ELSE Load(tried, encoding, load.df, "skipped", r.error)

(***************************************************************************)
(* SpecLoad: the loop over the files of data/.  The files are drawn from   *)
(* the contents below (N, M, A are the letters 78, 77, 65).                *)
(***************************************************************************)
MaxFiles == 2

FileContents ==
    { <<78, 10, 65>>,                     \* "N\nA": ASCII
      <<78, 10, 195, 169>>,               \* "N\n" and e-acute in UTF-8
      <<78, 10, 233>>,                    \* "N\n" and e-acute in latin-1
      <<78, 10, 129>>,                    \* a byte that cp1252 leaves undefined
      <<78, 10, 195>>,                    \* a UTF-8 sequence cut short
      <<78, 44, 77, 10, 65>>,             \* "N,M\nA": a short record
      <<>>,                               \* an empty file
      <<10>>,                             \* a blank line only
      <<78, 10, 65, 10, 65, 44, 65>>,     \* "N\nA\nA,A": a ragged record
      <<78, 10, 233, 10, 65, 44, 65>> }   \* ragged, and e-acute in latin-1

\* The contents of the five files that the load_* functions read, in the
\* order customers, products, sales, stores, exchange rates.
TableFileContents ==
    { <<78, 10, 65>>, <<78, 10, 233>>, <<78, 10, 65, 10, 65, 44, 65>> }

\* Either the loop of analyze_csv_fields_v2.py over the files of data/, or
\* the five load_* calls of data_cleaning.py, one per file.
InitLoad ==
    /\ \/ /\ pc = "load"
          /\ csv_files \in SeqsUpTo(FileContents, MaxFiles)
       \/ /\ pc = "load_customers"
          /\ csv_files \in [1..5 -> TableFileContents]
    /\ loads = <<>>
    /\ sales = NoFrame
    /\ products = NoFrame
    /\ customers = NoFrame
    /\ stores = NoFrame
    /\ exchange_rates = NoFrame
    /\ sales_analysis = NoFrame
    /\ df = NoFrame
    /\ df2 = NoFrame
    /\ validation_results = NoReport
    /\ report = NoReport
    /\ exc = "none"

Reading == loads # <<>> /\ loads[Len(loads)].status = "reading"

\* for csv_file in csv_files: ... encodings = [...]; df = None
StartFile ==
    /\ pc = "load"
    /\ ~Reading
    /\ Len(loads) < Len(csv_files)
    /\ loads' = Append(loads, BeginLoad(loads))
    /\ UNCHANGED <<exchange_rates, report, csv_files,
                   sales, products, customers, stores, sales_analysis, pc, exc,
                   df, df2, validation_results>>

\* for encoding in encodings: try: df = pd.read_csv(...); break
TryEncoding ==
    /\ pc = "load"
    /\ Reading
    /\ loads' = [loads EXCEPT ![Len(loads)] = Attempt(@, csv_files[Len(loads)])]
    /\ UNCHANGED <<exchange_rates, report, csv_files,
                   sales, products, customers, stores, sales_analysis, pc, exc,
                   df, df2, validation_results>>

\* load_*_data(file_path): try: return pd.read_csv(file_path[, encoding])
\* except Exception: return None.  The result is <<table>>, or <<>> for None.
load_data(b, encoding) ==
    IF ReadCsv(b, encoding).error = "none" THEN ReadCsv(b, encoding).df ELSE <<>>

\* customers = load_customers_data(path), which reads with latin-1
LoadCustomers ==
    /\ pc = "load_customers"
    /\ customers' = load_data(csv_files[1], "latin-1")
    /\ pc' = "load_products"
    /\ UNCHANGED <<exchange_rates, report, csv_files, loads, sales, products,
                   stores, sales_analysis, exc, df, df2, validation_results>>

\* products = load_products_data(path), which reads with the default, utf-8
LoadProducts ==
    /\ pc = "load_products"
    /\ products' = load_data(csv_files[2], "utf-8")
    /\ pc' = "load_sales"
    /\ UNCHANGED <<exchange_rates, report, csv_files, loads, sales, customers,
                   stores, sales_analysis, exc, df, df2, validation_results>>

\* sales = load_sales_data(path)
LoadSales ==
    /\ pc = "load_sales"
    /\ sales' = load_data(csv_files[3], "utf-8")
    /\ pc' = "load_stores"
    /\ UNCHANGED <<exchange_rates, report, csv_files, loads, products, customers,
                   stores, sales_analysis, exc, df, df2, validation_results>>

\* stores = load_stores_data(path)
LoadStores ==
    /\ pc = "load_stores"
    /\ stores' = load_data(csv_files[4], "utf-8")
    /\ pc' = "load_exchange_rates"
    /\ UNCHANGED <<exchange_rates, report, csv_files, loads, sales, products,
                   customers, sales_analysis, exc, df, df2, validation_results>>

\* exchange_rates = load_exchange_rates_data(path)
LoadExchangeRates ==
    /\ pc = "load_exchange_rates"
    /\ exchange_rates' = load_data(csv_files[5], "utf-8")
    /\ pc' = "tables_loaded"
    /\ UNCHANGED <<report, csv_files, loads, sales, products, customers, stores,
                   sales_analysis, exc, df, df2, validation_results>>

NextLoad ==
    \/ StartFile
    \/ TryEncoding
    \/ LoadCustomers
    \/ LoadProducts
    \/ LoadSales
    \/ LoadStores
    \/ LoadExchangeRates

SpecLoad == InitLoad /\ [][NextLoad]_vars

IsPrefix(s, u) == Len(s) <= Len(u) /\ \A i \in 1..Len(s) : s[i] = u[i]

(***************************************************************************)
(* C13. Encoding fallback order: the loader tries the encodings utf-8,     *)
(* latin-1, iso-8859-1, cp1252 in that order and stops at the first one    *)
(* that decodes the whole file, which is the encoding it reports: at every *)
(* moment the encodings tried for a file are a prefix of that list, all    *)
(* but the last of them fail to decode the file, the last one too while    *)
(* the file is still being read, and a loaded file is loaded with the last *)
(* one tried, which decodes it.  A file that fails under utf-8 is read     *)
(* with latin-1, and loaded with it unless its content is malformed.       *)
(***************************************************************************)
C13_FallbackOrder ==
    \A i \in 1..Len(loads) :
        LET l == loads[i]
            b == csv_files[i]
            n == Len(l.tried)
        IN  /\ IsPrefix(l.tried, <<"utf-8", "latin-1", "iso-8859-1", "cp1252">>)
            /\ \A j \in 1..(n - 1) : ~Decodes(b, l.tried[j])
            /\ (l.status = "reading" /\ n > 0) => ~Decodes(b, l.tried[n])
            /\ l.status = "loaded" =>
                  /\ n > 0
                  /\ Decodes(b, l.tried[n])
                  /\ l.encoding = l.tried[n]
                  /\ l.df # <<>>
            /\ (l.status # "reading" /\ ~Decodes(b, "utf-8")) =>
                  /\ l.tried = <<"utf-8", "latin-1">>
                  /\ l.encoding = "latin-1"
                  /\ l.status = "loaded" <=> l.error = "none"

\* A file with an e-acute in latin-1 has been loaded, with latin-1 reported,
\* after a file loaded with utf-8.
C13_Witness ==
    /\ Len(loads) = 2
    /\ loads[1].status = "loaded" /\ loads[1].tried = <<"utf-8">>
    /\ csv_files[2] = <<78, 10, 233>>
    /\ loads[2].status = "loaded"
    /\ loads[2].encoding = "latin-1"
    /\ loads[2].df = <<Frame(<< <<78>> >>, << [c \in {<<78>>} |-> << <<233>> >>] >>)>>

\* The load of the file b from the start of the loop body to its end.
RECURSIVE FinishLoad(_, _)
FinishLoad(load, b) ==
    IF load.status = "reading" THEN FinishLoad(Attempt(load, b), b) ELSE load

\* The loads of a whole run of the loop over the files.
RECURSIVE RunOf(_, _)
RunOf(done, files) ==
    IF files = <<>> THEN done
    ELSE RunOf(Append(done, FinishLoad(BeginLoad(done), Head(files))), Tail(files))

\* The sequence s without its element k.
RemoveAt(s, k) == SubSeq(s, 1, k - 1) \o SubSeq(s, k + 1, Len(s))

\* No encoding of the list gives a table of the file b.
Unreadable(b) == \A n \in 1..Len(Encodings) : ReadCsv(b, Encodings[n]).error # "none"

LoopDone == pc = "load" /\ ~Reading /\ Len(loads) = Len(csv_files)

\* The table variable of each load_* function with the file and the
\* encoding it reads.
TableLoads ==
    << [table |-> customers, encoding |-> "latin-1", at |-> "load_customers"],
       [table |-> products, encoding |-> "utf-8", at |-> "load_products"],
       [table |-> sales, encoding |-> "utf-8", at |-> "load_sales"],
       [table |-> stores, encoding |-> "utf-8", at |-> "load_stores"],
       [table |-> exchange_rates, encoding |-> "utf-8", at |-> "load_exchange_rates"] >>

TableSteps ==
    <<"load_customers", "load_products", "load_sales", "load_stores",
      "load_exchange_rates", "tables_loaded">>

\* The number of load_* calls that have returned.
TablesLoaded == (CHOOSE n \in 1..Len(TableSteps) : TableSteps[n] = pc) - 1

(***************************************************************************)
(* C14. Load failures are per-file and non-fatal.  In the loop over the    *)
(* files: no exception leaves the loop; a file that cannot be read (its    *)
(* content is malformed) ends as skipped, with no table; every file of the *)
(* listing is taken up in turn; and when the loop has ended, the loads of  *)
(* the other files are those of the run over the listing without the       *)
(* failing file.  In the load_* calls: a file that cannot be read gives    *)
(* None, the next call is made, and every other table is the one of its    *)
(* own file.                                                               *)
(***************************************************************************)
C14_PerFileFailures ==
    /\ exc = "none"
    /\ pc \in {"load"} \cup Range(TableSteps)
    /\ pc = "load" =>
          /\ \A i \in 1..Len(loads) :
                /\ loads[i].status \in {"reading", "loaded", "skipped"}
                /\ (loads[i].status = "reading") => i = Len(loads)
                /\ (loads[i].status # "reading" /\ Unreadable(csv_files[i])) =>
                      loads[i].status = "skipped" /\ loads[i].df = <<>>
                /\ (loads[i].status = "skipped") => Unreadable(csv_files[i])
          /\ (~Reading /\ Len(loads) < Len(csv_files)) => ENABLED StartFile
          /\ LoopDone =>
                \A k \in 1..Len(loads) :
                    loads[k].status = "skipped" =>
                        RemoveAt(loads, k) = RunOf(<<>>, RemoveAt(csv_files, k))
    /\ pc \in Range(TableSteps) =>
          \A n \in 1..TablesLoaded :
              LET r == ReadCsv(csv_files[n], TableLoads[n].encoding)
              IN  IF r.error = "none"
                  THEN TableLoads[n].table = r.df
                  ELSE TableLoads[n].table = <<>>

\* The loop has ended on an empty file followed by a readable one: the first
\* was skipped and the second loaded.
C14_Witness ==
    /\ LoopDone
    /\ csv_files = << <<>>, <<78, 10, 233>> >>
    /\ loads[1].status = "skipped" /\ loads[1].error = "EmptyDataError"
    /\ loads[2].status = "loaded" /\ loads[2].df # <<>>

(***************************************************************************)
(* scripts/data_cleaning.py: the cleaning functions.  A cell of a raw      *)
(* table is null or <<text>>, the text being a sequence of code points     *)
(* ("$" 36, "," 44, "-" 45, "." 46, "/" 47, the digits 48..57).            *)
(***************************************************************************)
\* int(digits) of a text of decimal digits.
RECURSIVE ToInt(_)
ToInt(digits) ==
    IF digits = <<>> THEN 0
    ELSE 10 * ToInt(SubSeq(digits, 1, Len(digits) - 1)) + (digits[Len(digits)] - 48)

IsDigits(text) == text # <<>> /\ \A i \in 1..Len(text) : text[i] \in 48..57

\* Series.str.replace(ch, '', regex=False) on one text.
Replace(text, ch) == SelectSeq(text, LAMBDA x : x # ch)

\* Series.str.strip() on one text (whitespace: 9..13 and 32).
Strip(text) ==
    LET inner == {i \in 1..Len(text) : text[i] \notin (9..13) \cup {32}}
        first == CHOOSE i \in inner : \A j \in inner : i <= j
        last == CHOOSE i \in inner : \A j \in inner : i >= j
    IN  IF inner = {} THEN <<>> ELSE SubSeq(text, first, last)

\* pd.to_numeric(text, errors='coerce') on one text: a decimal numeral with
\* an optional sign gives the float n/d, anything else gives null.
ToNumeric(text) ==
    LET signed == text # <<>> /\ text[1] \in {43, 45}
        numeral == IF signed THEN Tail(text) ELSE text
        dots == {i \in 1..Len(numeral) : numeral[i] = 46}
        decimals == IF dots = {} THEN 0 ELSE Len(numeral) - (CHOOSE i \in dots : TRUE)
        digits == Replace(numeral, 46)
        scale == ToInt(<<49>> \o [i \in 1..decimals |-> 48])
        n == IF signed /\ text[1] = 45 THEN -ToInt(digits) ELSE ToInt(digits)
    IN  IF Cardinality(dots) <= 1 /\ IsDigits(digits) THEN Frac(n, scale) ELSE Null

\* The price of a raw cell: .astype(str), the three string operations and
\* pd.to_numeric(errors='coerce'); a null cell stays null.
CleanPrice(cell) ==
    IF cell = Null THEN Null
    ELSE ToNumeric(Strip(Replace(Replace(cell[1], 36), 44)))

\* pd.to_datetime(text, errors='coerce') on one text, for month/day/year
\* dates: the day number of the date, or null (NaT) when the text is not a
\* date of the calendar or lies outside the years that Timestamp holds.
ToDatetime(text) ==
    LET parts == Split(text, 47)
        y == ToInt(parts[3])
        m == ToInt(parts[1])
        d == ToInt(parts[2])
        shifted == IF m <= 2 THEN y - 1 ELSE y
        era == shifted \div 400
        yoe == shifted - era * 400
        doy == (153 * (IF m > 2 THEN m - 3 ELSE m + 9) + 2) \div 5 + d - 1
        doe == yoe * 365 + yoe \div 4 - yoe \div 100 + doy
        days == era * 146097 + doe - 719468
    IN  IF /\ Len(parts) = 3
           /\ \A i \in 1..3 : IsDigits(parts[i])
           /\ Len(parts[1]) <= 2 /\ Len(parts[2]) <= 2 /\ Len(parts[3]) = 4
           /\ m \in 1..12 /\ d >= 1 /\ y \in 1678..2261
           /\ CivilFromDays(days) = [y |-> y, m |-> m, d |-> d]
        THEN <<days>>
        ELSE Null

CleanDate(cell) == IF cell = Null THEN Null ELSE ToDatetime(cell[1])

\* frame[c] = the coerced column, when the frame has the column c.
\* Mutant: the rows whose cell fails the coercion are dropped.
Coerced_dropna(frame, c, dtype) ==
    IF HasCol(frame, c)
    THEN LET Clean(cell) == IF dtype = "datetime" THEN CleanDate(cell)
                            ELSE CleanPrice(cell)
             kept == {i \in 1..Len(frame.rows) :
                         frame.rows[i][c] = Null \/ Clean(frame.rows[i][c]) # Null}
             Nth(k) == CHOOSE i \in kept : Cardinality({j \in kept : j <= i}) = k
         IN  Frame(frame.cols,
                   [k \in 1..Cardinality(kept) |->
                       [x \in Range(frame.cols) |->
                           IF x = c THEN Clean(frame.rows[Nth(k)][c])
                           ELSE frame.rows[Nth(k)][x]]])
    ELSE frame

Coerced(frame, c, dtype) ==
    IF HasCol(frame, c)
    THEN SetCol(frame, c,
                [i \in 1..Len(frame.rows) |->
                    IF dtype = "datetime" THEN CleanDate(frame.rows[i][c])
                    ELSE CleanPrice(frame.rows[i][c])])
    ELSE frame

clean_date_columns(sales_df) ==
    Coerced(Coerced(sales_df, "Order Date", "datetime"), "Delivery Date", "datetime")

clean_customer_dates(customers_df) == Coerced(customers_df, "Birthday", "datetime")

clean_store_dates(stores_df) == Coerced(stores_df, "Open Date", "datetime")

clean_exchange_dates(exchange_rates_df) == Coerced(exchange_rates_df, "Date", "datetime")

clean_price_columns(products_df) ==
    Coerced(Coerced(products_df, "Unit Cost USD", "float"), "Unit Price USD", "float")

\* The tables that handle_missing_values(df) can return.  The median fills
\* the null cells of 'Square Meters' through fillna(inplace=True) on the
\* column selected from the copy, which reaches the copy or not, depending
\* on the pandas in use (copy-on-write); both outcomes are given.
handle_missing_values(frame) ==
    LET col == Column(frame, "Square Meters")
        sized == {i \in 1..Len(col) : col[i] # Null}
        n == Cardinality(sized)
        \* the j-th smallest of the sizes
        Stat(j) == CHOOSE v \in Present(col) :
                      /\ Cardinality({i \in sized : col[i][1] < v}) < j
                      /\ j <= Cardinality({i \in sized : col[i][1] <= v})
        twice == Stat((n + 1) \div 2) + Stat((n + 2) \div 2)
        median_size == IF twice % 2 = 0 THEN <<twice \div 2>> ELSE <<twice, 2>>
        filled == SetCol(frame, "Square Meters",
                         [i \in 1..Len(col) |->
                             IF col[i] = Null THEN median_size ELSE col[i]])
    IN  IF HasCol(frame, "Square Meters") /\ n > 0 THEN {filled, frame} ELSE {frame}

\* Mutant: 'Missing Values' counts the rows that have a null cell.
generate_data_quality_report_rows(frame, dataset_name) ==
    LET n == Len(frame.rows)
        cols == Range(frame.cols)
    IN  ("Dataset" :> <<dataset_name>>)
        @@ ("Total Records" :> <<n>>)
        @@ ("Total Columns" :> <<Len(frame.cols)>>)
        @@ ("Missing Values" :>
               <<Cardinality({i \in 1..n : \E c \in cols : frame.rows[i][c] = Null})>>)
        @@ ("Duplicate Rows" :>
               <<Cardinality({i \in 1..n :
                     \E j \in 1..(i - 1) : frame.rows[j] = frame.rows[i]})>>)

\* The counts of generate_data_quality_report(df, dataset_name).  The
\* entries on dtypes and memory usage are not represented.
generate_data_quality_report(frame, dataset_name) ==
    LET n == Len(frame.rows)
        cols == Range(frame.cols)
    IN  ("Dataset" :> <<dataset_name>>)
        @@ ("Total Records" :> <<n>>)
        @@ ("Total Columns" :> <<Len(frame.cols)>>)
        @@ ("Missing Values" :>
               <<Cardinality({<<i, c>> \in (1..n) \X cols : frame.rows[i][c] = Null})>>)
        @@ ("Duplicate Rows" :>
               <<Cardinality({i \in 1..n :
                     \E j \in 1..(i - 1) : frame.rows[j] = frame.rows[i]})>>)

(***************************************************************************)
(* sales_analysis.py, section 2: the script converts its tables where they *)
(* stand.  One statement table[c] = ... gives the error it raises, or the  *)
(* table after it.  pd.to_datetime without errors= and .astype(float)      *)
(* raise ValueError on a text that does not parse; a column that the table *)
(* lacks raises KeyError; .str on a column without any text raises         *)
(* AttributeError.                                                         *)
(***************************************************************************)
ScriptConvert(frame, c, dtype) ==
    LET col == Column(frame, c)
        result == Coerced(frame, c, dtype)
        fails == \E i \in 1..Len(col) : col[i] # Null /\ result.rows[i][c] = Null
        error == IF ~HasCol(frame, c) THEN "KeyError"
                 ELSE IF dtype = "float" /\ col # <<>>
                         /\ \A i \in 1..Len(col) : col[i] = Null
                      THEN "AttributeError"
                 ELSE IF fails THEN "ValueError"
                 ELSE "none"
    IN  [error |-> error, frame |-> IF error = "none" THEN result ELSE frame]

(***************************************************************************)
(* SpecStages: one call of a function of data_cleaning.py, or section 2 of *)
(* the script, on tables as read from the files (pc = "clean"); one call   *)
(* of a function that takes cleaned tables (pc = "validate"); the feature  *)
(* derivation on a joined table (pc = "derive").  A run varies one table   *)
(* over its samples and keeps the others at a fixed one.                   *)
(***************************************************************************)
PriceTexts ==
    { <<36, 49, 44, 50, 51, 52, 46, 53, 48>>,     \* "$1,234.50"
      <<105, 110, 118, 97, 108, 105, 100>>,       \* "invalid"
      <<32, 36, 53, 32>>,                         \* " $5 "
      <<49, 50, 46, 53>>,                         \* "12.5"
      <<45, 51>> }                                \* "-3"

DateTexts ==
    { <<52, 47, 49, 52, 47, 50, 48, 49, 57>>,     \* "4/14/2019"
      <<50, 47, 51, 48, 47, 50, 48, 49, 57>>,     \* "2/30/2019"
      <<105, 110, 118, 97, 108, 105, 100>>,       \* "invalid"
      <<49, 50, 47, 51, 49, 47, 49, 57, 57, 57>> } \* "12/31/1999"

StageStoresCols == <<"StoreKey", "Country", "Square Meters", "Open Date">>
ExchangeCols == <<"Date", "Currency", "Exchange">>

StageStoreRow(k, size, open) ==
    [col \in Range(StageStoresCols) |->
        CASE col = "StoreKey" -> k
          [] col = "Country" -> <<"CA">>
          [] col = "Square Meters" -> size
          [] col = "Open Date" -> open]
ExchangeRow(date) ==
    [col \in Range(ExchangeCols) |->
        CASE col = "Date" -> date
          [] col = "Currency" -> <<"CAD">>
          [] col = "Exchange" -> <<1>>]

\* Tables as read from the files, by name: the first row takes its price
\* and date cells from the given ones, the second row is fixed; missing are
\* the columns that a header can lack ("": none).
RawTables(prices, dates, missing) ==
    LET date == << <<49, 47, 50, 47, 50, 48, 50, 48>> >>     \* "1/2/2020"
        price == << <<36, 55, 46, 50, 53>> >>                \* "$7.25"
        one == <<1>>
        two == <<2>>
    IN  [sales |->
            {Frame(SalesCols, <<SalesRow(one, od, dd, one, one, one, one),
                                SalesRow(two, date, date, one, one, one, one)>>) :
                od \in dates, dd \in dates},
         products |->
            {Drop(Frame(ProductsCols, <<ProductRow(one, cost, sell),
                                        ProductRow(two, price, price)>>), c) :
                cost \in prices, sell \in prices, c \in missing \ {"Birthday"}},
         customers |->
            {Drop(Frame(CustomersCols,
                        <<CustomerRow(one, <<"name">>, <<"US">>, b),
                          CustomerRow(two, <<"name">>, <<"US">>, date)>>), c) :
                b \in dates, c \in missing \ {"Unit Cost USD"}},
         stores |->
            {Frame(StageStoresCols, <<StageStoreRow(one, <<1000>>, open),
                                      StageStoreRow(two, Null, date)>>) :
                open \in dates},
         exchange_rates |->
            {Frame(ExchangeCols, <<ExchangeRow(d), ExchangeRow(date)>>) :
                d \in dates}]

\* The same tables after cleaning; the stores have up to three rows, with
\* missing sizes and with equal rows.
CleanedTables ==
    [sales |-> {Frame(SalesCols, r) : r \in SeqsUpTo(ValidateSalesRows, MaxFactRows)},
     products |->
        {Frame(ProductsCols, r) : r \in SeqsUpTo(ValidateProductRows, MaxProductRows)},
     customers |->
        {Frame(CustomersCols, r) : r \in SeqsUpTo(MergeCustomerRows, MaxCustomerRows)},
     stores |->
        {Frame(StageStoresCols, r) :
            r \in SeqsUpTo({StageStoreRow(<<1>>, size, <<18000>>) :
                               size \in {<<1000>>, <<2001>>, Null}}, 3)},
     exchange_rates |-> {Frame(ExchangeCols, <<ExchangeRow(<<18000>>)>>)}]

TableNames == {"sales", "products", "customers", "stores", "exchange_rates"}

\* The second row of a joined table of two rows: with all its dates,
\* without birthday, without delivery date.
PairedRows ==
    {FeatureRow(<<(<<2>>), (<<3>>), (<<2>>)>>, dates) :
        dates \in { <<(<<18000>>), (<<18000 - 9131>>), (<<18000>>)>>,
                    <<(<<18000>>), Null, (<<18003>>)>>,
                    <<(<<18000>>), (<<18000 - 23742>>), Null>> }}

InitStages ==
    /\ \/ /\ pc \in {"clean", "validate"}
          /\ \E focus \in TableNames :
                LET raw == RawTables({<<text>> : text \in PriceTexts} \cup {Null},
                                     {<<text>> : text \in DateTexts} \cup {Null},
                                     {"", "Unit Cost USD", "Birthday"})
                    \* the tables that the run keeps fixed: all cells valid
                    valid == RawTables({<< <<36, 53>> >>},                  \* "$5"
                                       {<< <<49, 47, 49, 47, 50, 48, 49, 57>> >>},  \* "1/1/2019"
                                       {""})
                    cleaned ==
                        [sales |-> {clean_date_columns(f) : f \in valid.sales},
                         products |-> {clean_price_columns(f) : f \in valid.products},
                         customers |-> {clean_customer_dates(f) : f \in valid.customers},
                         stores |-> {clean_store_dates(f) : f \in valid.stores},
                         exchange_rates |->
                             {clean_exchange_dates(f) : f \in valid.exchange_rates}]
                    Pick(name) ==
                        IF name = focus
                        THEN (IF pc = "clean" THEN raw ELSE CleanedTables)[name]
                        ELSE (IF pc = "clean" THEN valid ELSE cleaned)[name]
                IN  /\ sales \in Pick("sales")
                    /\ products \in Pick("products")
                    /\ customers \in Pick("customers")
                    /\ stores \in Pick("stores")
                    /\ exchange_rates \in Pick("exchange_rates")
          /\ sales_analysis = NoFrame
       \/ /\ pc = "derive"
          /\ sales_analysis \in
                {Frame(FeatureCols, r) : r \in SeqsUpTo(FeatureRows, MaxFeatureRows)}
                \cup {Frame(FeatureCols, <<r, o>>) : r \in FeatureRows, o \in PairedRows}
          /\ sales = NoFrame
          /\ products = NoFrame
          /\ customers = NoFrame
          /\ stores = NoFrame
          /\ exchange_rates = NoFrame
    /\ exc = "none"
    /\ df = NoFrame
    /\ df2 = NoFrame
    /\ validation_results = NoReport
    /\ report = NoReport
    /\ NoLoads

\* sales_clean = clean_date_columns(sales), and likewise the other calls:
\* the caller's table after the call, and the table returned in df.
CleanDateColumns ==
    /\ pc = "clean"
    /\ LET call == Return(copy(sales), clean_date_columns(sales))
       IN  /\ sales' = call.caller
           /\ df' = call.local
    /\ pc' = "clean_date_columns"
    /\ UNCHANGED <<csv_files, loads, report, exchange_rates, products, customers,
                   stores, sales_analysis, exc, df2, validation_results>>

CleanCustomerDates ==
    /\ pc = "clean"
    /\ LET call == Return(copy(customers), clean_customer_dates(customers))
       IN  /\ customers' = call.caller
           /\ df' = call.local
    /\ pc' = "clean_customer_dates"
    /\ UNCHANGED <<csv_files, loads, report, exchange_rates, sales, products,
                   stores, sales_analysis, exc, df2, validation_results>>

CleanStoreDates ==
    /\ pc = "clean"
    /\ LET call == Return(copy(stores), clean_store_dates(stores))
       IN  /\ stores' = call.caller
           /\ df' = call.local
    /\ pc' = "clean_store_dates"
    /\ UNCHANGED <<csv_files, loads, report, exchange_rates, sales, products,
                   customers, sales_analysis, exc, df2, validation_results>>

CleanExchangeDates ==
    /\ pc = "clean"
    /\ LET call == Return(copy(exchange_rates), clean_exchange_dates(exchange_rates))
       IN  /\ exchange_rates' = call.caller
           /\ df' = call.local
    /\ pc' = "clean_exchange_dates"
    /\ UNCHANGED <<csv_files, loads, report, sales, products, customers,
                   stores, sales_analysis, exc, df2, validation_results>>

CleanPriceColumns ==
    /\ pc = "clean"
    /\ LET call == Return(copy(products), clean_price_columns(products))
       IN  /\ products' = call.caller
           /\ df' = call.local
    /\ pc' = "clean_price_columns"
    /\ UNCHANGED <<csv_files, loads, report, exchange_rates, sales, customers,
                   stores, sales_analysis, exc, df2, validation_results>>

\* df = handle_missing_values(stores), or of the sales table, which has no
\* 'Square Meters'.
HandleMissingValues ==
    /\ pc = "validate"
    /\ \E name \in {"stores", "sales"} :
          \E result \in handle_missing_values(IF name = "stores" THEN stores ELSE sales) :
             LET call == Return(copy(IF name = "stores" THEN stores ELSE sales), result)
             IN  /\ stores' = IF name = "stores" THEN call.caller ELSE stores
                 /\ sales' = IF name = "sales" THEN call.caller ELSE sales
                 /\ df' = call.local
    /\ pc' = "handle_missing_values"
    /\ UNCHANGED <<csv_files, loads, report, exchange_rates, products, customers,
                   sales_analysis, exc, df2, validation_results>>

\* report = generate_data_quality_report(table, name): the function only
\* reads the table.
GenerateDataQualityReport ==
    /\ pc \in {"clean", "validate"}
    /\ \E name \in TableNames :
          LET table == [sales |-> sales, products |-> products,
                        customers |-> customers, stores |-> stores,
                        exchange_rates |-> exchange_rates][name]
          IN  report' = generate_data_quality_report(table, name)
    /\ pc' = "generate_data_quality_report"
    /\ UNCHANGED <<csv_files, loads, exchange_rates, sales, products, customers,
                   stores, sales_analysis, exc, df, df2, validation_results>>

\* sales_analysis.py:44-48: the five date statements, in order; the first
\* that raises ends the run, the tables assigned before it stay converted.
ScriptDates ==
    /\ pc = "clean"
    /\ \E order \in {ScriptConvert(sales, "Order Date", "datetime")} :
       \E delivery \in {ScriptConvert(order.frame, "Delivery Date", "datetime")} :
       \E birthday \in {ScriptConvert(customers, "Birthday", "datetime")} :
       \E open \in {ScriptConvert(stores, "Open Date", "datetime")} :
       \E date \in {ScriptConvert(exchange_rates, "Date", "datetime")} :
       \E errors \in {<<order.error, delivery.error, birthday.error, open.error,
                         date.error>>} :
       \E first \in {i \in 1..6 : /\ i = 6 \/ errors[i] # "none"
                                  /\ \A j \in 1..(i - 1) : errors[j] = "none"} :
          /\ sales' = IF first = 1 THEN sales ELSE delivery.frame
          /\ customers' = IF first < 3 THEN customers ELSE birthday.frame
          /\ stores' = IF first < 4 THEN stores ELSE open.frame
          /\ exchange_rates' = IF first < 5 THEN exchange_rates ELSE date.frame
          /\ exc' = IF first = 6 THEN exc ELSE errors[first]
          /\ pc' = IF first = 6 THEN "script_dates" ELSE "dates_raised"
    /\ UNCHANGED <<csv_files, loads, report, products, sales_analysis, df, df2,
                   validation_results>>

\* sales_analysis.py:51-52: the two price statements.
ScriptPrices ==
    /\ pc = "script_dates"
    /\ \E cost \in {ScriptConvert(products, "Unit Cost USD", "float")} :
       \E price \in {ScriptConvert(cost.frame, "Unit Price USD", "float")} :
          /\ products' = IF cost.error = "none" THEN price.frame ELSE products
          /\ exc' = IF cost.error # "none" THEN cost.error
                    ELSE IF price.error # "none" THEN price.error
                    ELSE exc
          /\ pc' = IF cost.error = "none" /\ price.error = "none"
                   THEN "script_prices" ELSE "prices_raised"
    /\ UNCHANGED <<csv_files, loads, report, exchange_rates, sales, customers,
                   stores, sales_analysis, df, df2, validation_results>>

\* sales_analysis.py:72-74: the script adds Revenue, Cost and Profit to its
\* joined table where it stands; a column that the table lacks raises
\* KeyError.  The statements follow the third merge ("merged"); at
\* "rederive" the table is the one that df was derived from.
ScriptFinancials ==
    /\ pc \in {"rederive", "merged"}
    /\ IF HasCols(sales_analysis, {"Quantity", "Unit Price USD", "Unit Cost USD"})
       THEN LET n == Len(sales_analysis.rows)
                f1 == SetCol(sales_analysis, "Revenue",
                             [i \in 1..n |-> Revenue(sales_analysis.rows[i])])
                f2 == SetCol(f1, "Cost", [i \in 1..n |-> Cost(f1.rows[i])])
            IN  /\ sales_analysis' =
                      SetCol(f2, "Profit", [i \in 1..n |-> Profit(f2.rows[i])])
                /\ pc' = "script_financials"
                /\ UNCHANGED exc
       ELSE /\ exc' = "KeyError"
            /\ pc' = "financials_raised"
            /\ UNCHANGED sales_analysis
    /\ UNCHANGED <<csv_files, loads, report, exchange_rates, sales, products,
                   customers, stores, df, df2, validation_results>>

NextStages ==
    \/ CleanDateColumns
    \/ CleanCustomerDates
    \/ CleanStoreDates
    \/ CleanExchangeDates
    \/ CleanPriceColumns
    \/ HandleMissingValues
    \/ GenerateDataQualityReport
    \/ ValidateCleanedData
    \/ CreateAnalysisFeatures
    \/ CreateAnalysisFeaturesAgain
    \/ ScriptDates
    \/ ScriptPrices
    \/ ScriptFinancials

SpecStages == InitStages /\ [][NextStages]_vars

\* The result has the rows of the table, in order, with the cells of the
\* columns cols coerced and every other cell as it was.
CellsCoerced(result, table, cols, dtype) ==
    /\ result.cols = table.cols
    /\ Len(result.rows) = Len(table.rows)
    /\ \A i \in 1..Len(table.rows) : \A c \in Range(table.cols) :
          result.rows[i][c] =
              IF c \notin cols THEN table.rows[i][c]
              ELSE IF dtype = "datetime" THEN CleanDate(table.rows[i][c])
              ELSE CleanPrice(table.rows[i][c])

\* The cells of the result in the rows where the table has the given text.
CellsOf(result, table, c, text) ==
    {result.rows[i][c] : i \in {n \in 1..Len(table.rows) : table.rows[n][c] = <<text>>}}

PriceCols == {"Unit Cost USD", "Unit Price USD"}

\* clean_price_columns keeps what C15 says: every price cell of the
\* returned table is the decimal of its text without '$', ',' and the
\* surrounding whitespace, null when that is no decimal; "$1,234.50" gives
\* 1234.50 (2469/2), " $5 " gives 5 and "invalid" gives null.
CleanPriceColumnsCoerces ==
    pc = "clean_price_columns" =>
        /\ exc = "none"
        /\ CellsCoerced(df, products, PriceCols, "float")
        /\ \A c \in PriceCols \cap Range(products.cols) :
              /\ CellsOf(df, products, c, <<36, 49, 44, 50, 51, 52, 46, 53, 48>>)
                    \subseteq {<<2469, 2>>}
              /\ CellsOf(df, products, c, <<32, 36, 53, 32>>) \subseteq {<<5, 1>>}
              /\ CellsOf(df, products, c, <<105, 110, 118, 97, 108, 105, 100>>)
                    \subseteq {Null}

\* C15: price normalization, by clean_price_columns or by the statements of
\* the script, turns every cell of 'Unit Cost USD' and 'Unit Price USD' into
\* the decimal of its text without '$', ',' and surrounding whitespace, a
\* cell that does not parse (such as "invalid") into null, and raises no
\* error.
C15_PriceCleaning ==
    /\ CleanPriceColumnsCoerces
    /\ ~(pc = "prices_raised" /\ exc = "ValueError")
    /\ pc = "script_prices" =>
          \A i \in 1..Len(products.rows) : \A c \in PriceCols :
              Len(products.rows[i][c]) \in {0, 2}

DateCols == {"Order Date", "Delivery Date", "Birthday", "Open Date", "Date"}

\* The four clean_*_dates functions keep what C16 says: in the returned
\* table every cell of a date column is its date, null when the text is no
\* date ("invalid", "2/30/2019"), and every other cell is as it was.
CleanDatesCoerces ==
    LET Coerces(table) ==
            /\ exc = "none"
            /\ CellsCoerced(df, table, DateCols, "datetime")
            /\ \A c \in DateCols \cap Range(table.cols) :
                  /\ CellsOf(df, table, c, <<105, 110, 118, 97, 108, 105, 100>>)
                        \subseteq {Null}
                  /\ CellsOf(df, table, c, <<50, 47, 51, 48, 47, 50, 48, 49, 57>>)
                        \subseteq {Null}
                  /\ CellsOf(df, table, c, <<52, 47, 49, 52, 47, 50, 48, 49, 57>>)
                        \subseteq {<<18000>>}
    IN  /\ pc = "clean_date_columns" => Coerces(sales)
        /\ pc = "clean_customer_dates" => Coerces(customers)
        /\ pc = "clean_store_dates" => Coerces(stores)
        /\ pc = "clean_exchange_dates" => Coerces(exchange_rates)

\* C16: in every date column (Order Date, Delivery Date, Birthday, Open
\* Date, exchange-rate Date) a value that is no date becomes null in that
\* cell only, the normalization of the table completes and the run does not
\* fail, whether the dates are converted by the clean_* functions or by the
\* statements of the script.
C16_DateCoercion ==
    /\ CleanDatesCoerces
    /\ ~(pc = "dates_raised" /\ exc = "ValueError")

\* The table with the cell of row i and column c replaced.
WithCell(frame, i, c, cell) ==
    [frame EXCEPT !.rows[i][c] = cell]

\* The derived table is, outside the cells (i, c) and (i, dependent), the
\* one derived from the table that has the date in row i and column c.
AsIfPresent(i, c, date, dependent) ==
    LET other == create_analysis_features(WithCell(sales_analysis, i, c, date))
    IN  /\ df.cols = other.cols
        /\ Len(df.rows) = Len(other.rows)
        /\ \A j \in 1..Len(df.rows) : \A x \in Range(df.cols) :
              (j = i /\ x \in dependent \cup {c}) \/ df.rows[j][x] = other.rows[j][x]

\* C17: create_analysis_features completes on a joined table with missing
\* dates; a row with a null Birthday gets a null Customer Age and a null
\* Age Group, a row with a null Delivery Date gets a null Delivery Days,
\* and every other derived value, of that row and of the other rows, is
\* what it is when the date is present.
C17_MissingDatesPropagate ==
    pc = "rederive" =>
        /\ exc = "none"
        /\ Len(df.rows) = Len(sales_analysis.rows)
        /\ \A i \in 1..Len(sales_analysis.rows) :
              /\ sales_analysis.rows[i]["Birthday"] = Null =>
                    /\ df.rows[i]["Customer Age"] = Null
                    /\ df.rows[i]["Age Group"] = Null
                    /\ \A date \in {<<0>>, <<18000 - 9131>>, <<18000>>} :
                          AsIfPresent(i, "Birthday", date,
                                      {"Customer Age", "Age Group"})
              /\ sales_analysis.rows[i]["Delivery Date"] = Null =>
                    /\ df.rows[i]["Delivery Days"] = Null
                    /\ \A date \in {<<18000>>, <<18003>>} :
                          AsIfPresent(i, "Delivery Date", date, {"Delivery Days"})

\* A derived table of two rows: the first without birthday and with a
\* delivery after 3 days, the second with an age and without delivery date.
C17_Witness ==
    /\ pc = "rederive"
    /\ Len(df.rows) = 2
    /\ sales_analysis.rows[1]["Birthday"] = Null
    /\ df.rows[1]["Customer Age"] = Null
    /\ df.rows[1]["Delivery Days"] = <<3>>
    /\ df.rows[1]["Revenue"] = <<6>>
    /\ sales_analysis.rows[2]["Delivery Date"] = Null
    /\ df.rows[2]["Delivery Days"] = Null
    /\ df.rows[2]["Age Group"] = <<"65+">>

\* The Order Date values of the table: the cells that hold a date.
OrderDates(s) == Present(Column(s, "Order Date"))

\* C18: for every sales table with an 'Order Date' column, those without
\* rows or without any parsable Order Date included, validate_cleaned_data
\* reports 'Reasonable date range' as true if and only if every Order Date
\* value of the table lies in [2000-01-01, 2030-01-01].
C18_DateRange ==
    (pc = "validated" /\ HasCol(sales, "Order Date")) =>
        /\ "Reasonable date range" \in DOMAIN validation_results
        /\ validation_results["Reasonable date range"] = TRUE
              <=> \A date \in OrderDates(sales) :
                     MinOrderDate <= date /\ date <= MaxOrderDate

\* What the code reports: true if and only if the table has an Order Date
\* value and all of them are in the range.
C18_CodeRange ==
    (pc = "validated" /\ HasCol(sales, "Order Date")) =>
        /\ "Reasonable date range" \in DOMAIN validation_results
        /\ validation_results["Reasonable date range"] = TRUE
              <=> /\ OrderDates(sales) # {}
                  /\ \A date \in OrderDates(sales) :
                        MinOrderDate <= date /\ date <= MaxOrderDate

\* The row has Quantity q, Unit Price USD p and Unit Cost USD c (no nulls)
\* and the Revenue, Cost and Profit of the formulas.
Financials(r) ==
    LET q == r["Quantity"][1]
        p == r["Unit Price USD"][1]
        c == r["Unit Cost USD"][1]
    IN  (r["Quantity"] # Null /\ r["Unit Price USD"] # Null /\ r["Unit Cost USD"] # Null)
            => /\ r["Revenue"] = <<q * p>>
               /\ r["Cost"] = <<q * c>>
               /\ r["Profit"] = <<q * p - q * c>>

\* C19: every joined row with Quantity, Unit Price USD and Unit Cost USD
\* has Revenue = Quantity x Unit Price USD, Cost = Quantity x Unit Cost USD
\* and Profit = Revenue - Cost, in the table of the script and in the table
\* that create_analysis_features returns, and the two tables have the same
\* Revenue, Cost and Profit in every row.
C19_FinancialDerivation ==
    /\ pc \in {"rederive", "script_financials"} =>
          \A i \in 1..Len(df.rows) : Financials(df.rows[i])
    /\ pc = "script_financials" =>
          /\ Len(sales_analysis.rows) = Len(df.rows)
          /\ \A i \in 1..Len(df.rows) :
                /\ Financials(sales_analysis.rows[i])
                /\ \A c \in {"Revenue", "Cost", "Profit"} :
                      sales_analysis.rows[i][c] = df.rows[i][c]

\* Both tables hold a row of Quantity 2, price 3 and cost 2: Revenue 6,
\* Cost 4, Profit 2; and a row without Quantity, whose three values are null.
C19_Witness ==
    /\ pc = "script_financials"
    /\ Len(df.rows) = 2
    /\ df.rows[2]["Quantity"] = <<2>>
    /\ df.rows[2]["Revenue"] = <<6>>
    /\ sales_analysis.rows[2]["Cost"] = <<4>>
    /\ sales_analysis.rows[2]["Profit"] = <<2>>
    /\ df.rows[1]["Quantity"] = Null
    /\ sales_analysis.rows[1]["Profit"] = Null

\* The values of pc after a call of one of the nine functions (validated,
\* raised: validate_cleaned_data; rederive, derived:
\* create_analysis_features).
StageCalls ==
    {"clean_date_columns", "clean_customer_dates", "clean_store_dates",
     "clean_exchange_dates", "clean_price_columns", "handle_missing_values",
     "generate_data_quality_report", "validated", "raised", "rederive", "derived"}

\* C20: a call of clean_date_columns, clean_customer_dates,
\* clean_store_dates, clean_exchange_dates, clean_price_columns,
\* handle_missing_values, create_analysis_features, validate_cleaned_data
\* or generate_data_quality_report leaves every table passed as argument
\* with the rows, columns and cells it had before the call; the changes are
\* in the returned table only.
C20_NoInputMutation ==
    [][pc' \in StageCalls =>
          /\ sales' = sales
          /\ products' = products
          /\ customers' = customers
          /\ stores' = stores
          /\ exchange_rates' = exchange_rates
          /\ sales_analysis' = sales_analysis
          /\ pc' = "derived" => df' = df]_vars

\* clean_price_columns has returned a table with the price 1234.50 (2469/2)
\* and the products table still holds the text "$1,234.50".
C20_Witness ==
    /\ pc = "clean_price_columns"
    /\ products.rows[1]["Unit Price USD"] = << <<36, 49, 44, 50, 51, 52, 46, 53, 48>> >>
    /\ df.rows[1]["Unit Price USD"] = <<2469, 2>>
    /\ HasCol(products, "Unit Cost USD")
    /\ products.rows[1]["Unit Cost USD"] = << <<105, 110, 118, 97, 108, 105, 100>> >>
    /\ df.rows[1]["Unit Cost USD"] = Null

\* The result has the columns and the number of rows of the table, and row
\* i of the result has, outside the columns cols, the cells of row i of the
\* table.
RowsPreserved(result, table, cols) ==
    /\ result.cols = table.cols
    /\ Len(result.rows) = Len(table.rows)
    /\ \A i \in 1..Len(table.rows) : \A c \in Range(table.cols) \ cols :
          result.rows[i][c] = table.rows[i][c]

\* C21: each of clean_date_columns, clean_customer_dates,
\* clean_store_dates, clean_exchange_dates and clean_price_columns returns a
\* table with the rows of its argument, as many and in the same order, in
\* which every column other than the coerced date or price columns is
\* unchanged; a cell that fails coercion is null in its row, which stays.
C21_RowsPreserved ==
    /\ pc = "clean_date_columns" =>
          RowsPreserved(df, sales, {"Order Date", "Delivery Date"})
    /\ pc = "clean_customer_dates" => RowsPreserved(df, customers, {"Birthday"})
    /\ pc = "clean_store_dates" => RowsPreserved(df, stores, {"Open Date"})
    /\ pc = "clean_exchange_dates" => RowsPreserved(df, exchange_rates, {"Date"})
    /\ pc = "clean_price_columns" => RowsPreserved(df, products, PriceCols)

\* clean_date_columns has returned both orders, in order, the first with
\* a null in place of the Order Date "invalid".
C21_Witness ==
    /\ pc = "clean_date_columns"
    /\ sales.rows[1]["Order Date"] = << <<105, 110, 118, 97, 108, 105, 100>> >>
    /\ Len(df.rows) = 2
    /\ df.rows[1]["Order Number"] = <<1>>
    /\ df.rows[1]["Order Date"] = Null
    /\ df.rows[2]["Order Number"] = <<2>>
    /\ df.rows[2]["Order Date"] # Null

(***************************************************************************)
(* SpecPipeline: sales_analysis.py from its first statement to the end of  *)
(* section 3: the five pd.read_csv, the date and price conversions, the    *)
(* three merges, Revenue/Cost/Profit and the date features.  The script    *)
(* has no try: a statement that raises ends the run.  csv_files holds, by  *)
(* table name, the table that pd.read_csv makes of the file, <<frame>>, or *)
(* <<>> for a file that is not there.                                      *)
(***************************************************************************)
InitPipeline ==
    /\ \E focus \in TableNames : \E missing \in TableNames \cup {"none"} :
          LET raw == RawTables({<<text>> : text \in PriceTexts} \cup {Null},
                               {<<text>> : text \in DateTexts} \cup {Null},
                               {"", "Unit Cost USD", "Birthday"})
              valid == RawTables({<< <<36, 53>> >>},                         \* "$5"
                                 {<< <<49, 47, 49, 47, 50, 48, 49, 57>> >>}, \* "1/1/2019"
                                 {""})
          IN  \E f \in raw[focus] :
                 csv_files =
                    [name \in TableNames |->
                        IF name = missing THEN <<>>
                        ELSE IF name = focus THEN <<f>>
                        ELSE <<CHOOSE table \in valid[name] : TRUE>>]
    /\ sales = NoFrame
    /\ products = NoFrame
    /\ customers = NoFrame
    /\ stores = NoFrame
    /\ exchange_rates = NoFrame
    /\ sales_analysis = NoFrame
    /\ pc = "script"
    /\ exc = "none"
    /\ df = NoFrame
    /\ df2 = NoFrame
    /\ validation_results = NoReport
    /\ report = NoReport
    /\ loads = <<>>

\* sales_analysis.py:26-30: the five pd.read_csv statements, in order; the
\* first file that is not there raises FileNotFoundError and ends the run,
\* the tables read before it stay assigned.
ScriptLoad ==
    /\ pc = "script"
    /\ LET order == <<"customers", "products", "sales", "stores", "exchange_rates">>
           absent == {i \in 1..5 : csv_files[order[i]] = <<>>}
           first == IF absent = {} THEN 6
                    ELSE CHOOSE i \in absent : \A j \in absent : i <= j
           Read(i) == IF i < first THEN csv_files[order[i]][1] ELSE NoFrame
       IN  /\ customers' = Read(1)
           /\ products' = Read(2)
           /\ sales' = Read(3)
           /\ stores' = Read(4)
           /\ exchange_rates' = Read(5)
           /\ exc' = IF first = 6 THEN exc ELSE "FileNotFoundError"
           /\ pc' = IF first = 6 THEN "clean" ELSE "load_raised"
    /\ UNCHANGED <<csv_files, loads, report, sales_analysis, df, df2,
                   validation_results>>

\* sales_analysis.py:77-80: Year, Month, Quarter and Day of Week of the
\* Order Date, added to the joined table where it stands.
ScriptDateFeatures ==
    /\ pc = "script_financials"
    /\ IF HasCol(sales_analysis, "Order Date")
       THEN \E f1 \in {SetCol(sales_analysis, "Year",
                              [i \in 1..Len(sales_analysis.rows) |->
                                  OrderYear(sales_analysis.rows[i])])} :
            \E f2 \in {SetCol(f1, "Month",
                              [i \in 1..Len(f1.rows) |-> OrderMonth(f1.rows[i])])} :
            \E f3 \in {SetCol(f2, "Quarter",
                              [i \in 1..Len(f2.rows) |-> OrderQuarter(f2.rows[i])])} :
               /\ sales_analysis' =
                     SetCol(f3, "Day of Week",
                            [i \in 1..Len(f3.rows) |-> OrderDayName(f3.rows[i])])
               /\ pc' = "script_features"
               /\ UNCHANGED exc
       ELSE /\ exc' = "KeyError"
            /\ pc' = "features_raised"
            /\ UNCHANGED sales_analysis
    /\ UNCHANGED <<csv_files, loads, report, exchange_rates, sales, products,
                   customers, stores, df, df2, validation_results>>

NextPipeline ==
    \/ ScriptLoad
    \/ ScriptDates
    \/ ScriptPrices
    \/ MergeProducts
    \/ MergeCustomers
    \/ MergeStores
    \/ ScriptFinancials
    \/ ScriptDateFeatures

SpecPipeline == InitPipeline /\ [][NextPipeline]_vars

\* The four tables of the join are those of the files, each read and with
\* every date and price column converted, and no statement has raised.
LoadedAndNormalized ==
    /\ \A name \in TableNames : csv_files[name] # <<>>
    /\ sales = clean_date_columns(csv_files["sales"][1])
    /\ products = clean_price_columns(csv_files["products"][1])
    /\ customers = clean_customer_dates(csv_files["customers"][1])
    /\ stores = clean_store_dates(csv_files["stores"][1])
    /\ HasCols(products, PriceCols)
    /\ \A i \in 1..Len(products.rows) : \A c \in PriceCols :
          Len(products.rows[i][c]) \in {0, 2}
    /\ exc = "none"

\* The joined table has a row for every row of the three merges of the
\* four tables, with the cells of that row.
ThreeJoinsDone ==
    \E m1 \in {Merge(sales, products, "ProductKey")} :
    \E m2 \in {Merge(m1, customers, "CustomerKey")} :
    \E m3 \in {Merge(m2, stores, "StoreKey")} :
       /\ Len(sales_analysis.rows) = Len(m3.rows)
       /\ \A c \in Range(m3.cols) :
             /\ HasCol(sales_analysis, c)
             /\ \A i \in 1..Len(m3.rows) : sales_analysis.rows[i][c] = m3.rows[i][c]

\* C22: in every run of the script the first join happens only after
\* sales, products, customers and stores are loaded and type-normalized,
\* and the features are derived only after the three joins; a run in which
\* a load or a conversion raises has no joined table, and a joined table
\* gets no derived column before the third join.
C22_StageOrdering ==
    /\ sales_analysis # NoFrame => LoadedAndNormalized
    /\ pc \in {"script", "clean", "script_dates", "script_prices", "load_raised",
               "dates_raised", "prices_raised"} => sales_analysis = NoFrame
    /\ pc \in {"merge_customers", "merge_stores", "merged"} =>
          ~HasCol(sales_analysis, "Revenue") /\ ~HasCol(sales_analysis, "Year")
    /\ (HasCol(sales_analysis, "Revenue") \/ HasCol(sales_analysis, "Year")) =>
          ThreeJoinsDone

\* A run that has gone through every stage: both orders are joined with
\* their product, customer and store and carry Revenue and Year.
C22_Witness ==
    /\ pc = "script_features"
    /\ Len(sales_analysis.rows) = 2
    /\ HasCols(sales_analysis, {"Unit Price USD", "Birthday", "Open Date",
                                "Revenue", "Profit", "Year", "Day of Week"})
    /\ sales_analysis.rows[2]["Revenue"] # Null
    /\ sales_analysis.rows[2]["Year"] = <<2020>>
    /\ sales_analysis.rows[1]["Order Date"] = Null
    /\ sales_analysis.rows[1]["Year"] = Null

\* The report has the counts of the table: its rows, its columns, the
\* cells that are null (all cells less those that hold a value) and the
\* rows that repeat an earlier row (all rows less the distinct ones).
CountsOf(table) ==
    LET n == Len(table.rows)
        held == {<<i, c>> \in (1..n) \X Range(table.cols) : table.rows[i][c] # Null}
    IN  /\ report["Total Records"] = <<n>>
        /\ report["Total Columns"] = <<Cardinality(Range(table.cols))>>
        /\ report["Missing Values"] = <<n * Len(table.cols) - Cardinality(held)>>
        /\ report["Duplicate Rows"] = <<n - Cardinality(Rows(table))>>

\* C23: for every table, generate_data_quality_report returns 'Total
\* Records' equal to the number of rows, 'Total Columns' equal to the
\* number of columns, 'Missing Values' equal to the number of null cells
\* over all columns and 'Duplicate Rows' equal to the number of rows that
\* are equal in every column to some earlier row.
C23_ReportCounts ==
    pc = "generate_data_quality_report" =>
        /\ exc = "none"
        /\ report["Dataset"] = <<"sales">> => CountsOf(sales)
        /\ report["Dataset"] = <<"products">> => CountsOf(products)
        /\ report["Dataset"] = <<"customers">> => CountsOf(customers)
        /\ report["Dataset"] = <<"stores">> => CountsOf(stores)
        /\ report["Dataset"] = <<"exchange_rates">> => CountsOf(exchange_rates)
        /\ report["Dataset"][1] \in TableNames

\* The report of a stores table of three rows and four columns: two rows
\* without size, of which the second repeats the first.
C23_Witness ==
    /\ pc = "generate_data_quality_report"
    /\ report["Dataset"] = <<"stores">>
    /\ report["Total Records"] = <<3>>
    /\ report["Total Columns"] = <<4>>
    /\ report["Missing Values"] = <<2>>
    /\ report["Duplicate Rows"] = <<1>>
    /\ stores.rows[1]["Square Meters"] = Null
    /\ stores.rows[2] = stores.rows[1]
    /\ stores.rows[3]["Square Meters"] = <<1000>>

\* C24: latin-1 decodes every byte sequence, so for every file content the
\* encoding loop tries utf-8 and at most latin-1 after it, never
\* iso-8859-1 or cp1252; the encoding reported on a successful load is
\* utf-8 or latin-1, and no load ends with df None after the loop ("no
\* encoding worked").
C24_ReachableEncodings ==
    \A i \in 1..Len(loads) :
        /\ \A j \in 1..Len(csv_files[i]) : csv_files[i][j] \in 0..255
        /\ Decode(csv_files[i], "latin-1").ok
        /\ Len(loads[i].tried) <= 2
        /\ Range(loads[i].tried) \subseteq {"utf-8", "latin-1"}
        /\ loads[i].status = "loaded" => loads[i].encoding \in {"utf-8", "latin-1"}
        /\ loads[i].error # "no encoding"
        /\ loads[i].status = "skipped" =>
              loads[i].error \in {"EmptyDataError", "ParserError"}

\* A file with the byte 0x81, which utf-8 rejects and cp1252 leaves
\* undefined, has been loaded with latin-1 after utf-8 failed.
C24_Witness ==
    /\ loads # <<>>
    /\ csv_files[1] = <<78, 10, 129>>
    /\ ~Decode(csv_files[1], "utf-8").ok
    /\ ~Decode(csv_files[1], "cp1252").ok
    /\ loads[1].tried = <<"utf-8", "latin-1">>
    /\ loads[1].status = "loaded"
    /\ loads[1].encoding = "latin-1"

\* The cells of column c, a column that the table has or has not.
ColumnOf(frame, c) ==
    IF HasCol(frame, c) THEN <<[i \in 1..Len(frame.rows) |-> frame.rows[i][c]]>>
    ELSE <<>>

\* A call with argument input and result output has treated the feature
\* group of the columns cols, derived by Group from the columns prereqs, on
\* its own: with all of prereqs in input the result has every column of
\* cols, with the cells Group alone derives from input; with one of prereqs
\* lacking the result has of cols what input had.
GroupGuarded(input, output, prereqs, cols, Group(_)) ==
    IF HasCols(input, prereqs)
    THEN \A c \in cols : /\ HasCol(output, c)
                         /\ ColumnOf(output, c) = ColumnOf(Group(input), c)
    ELSE \A c \in cols : ColumnOf(output, c) = ColumnOf(input, c)

GroupsGuarded(input, output) ==
    /\ GroupGuarded(input, output,
                    {"Quantity", "Unit Price USD", "Unit Cost USD"},
                    {"Revenue", "Cost", "Profit", "Profit Margin"},
                    FinancialFeatures)
    /\ GroupGuarded(input, output, {"Order Date"},
                    {"Year", "Month", "Quarter", "Day of Week", "Month Name",
                     "Week of Year"},
                    DateFeatures)
    /\ GroupGuarded(input, output, {"Order Date", "Birthday"},
                    {"Customer Age", "Age Group"}, AgeFeatures)
    /\ GroupGuarded(input, output, {"Delivery Date", "Order Date"},
                    {"Delivery Days"}, DeliveryFeatures)
    /\ Len(output.rows) = Len(input.rows)
    /\ \A c \in Range(input.cols) : HasCol(output, c)

\* C25: the four feature groups of create_analysis_features are guarded
\* independently: on a table that lacks a prerequisite column of a group
\* (financial: Quantity, Unit Price USD, Unit Cost USD; calendar: Order
\* Date; age: Order Date and Birthday; delivery: Delivery Date and Order
\* Date) the call does not raise, adds no column of that group, and adds
\* every column of each group whose prerequisites are all present.
C25_IndependentGuards ==
    /\ pc \in {"rederive", "derived"} =>
          /\ exc = "none"
          /\ GroupsGuarded(sales_analysis, df)
          /\ \A c \in {"Revenue", "Cost", "Profit", "Profit Margin", "Year",
                       "Month", "Quarter", "Day of Week", "Month Name",
                       "Week of Year", "Customer Age", "Age Group",
                       "Delivery Days"} : ~HasCol(sales_analysis, c)
    /\ pc = "derived" => GroupsGuarded(df, df2)

\* A joined table without Birthday has been derived: the result has the
\* financial, calendar and delivery columns and neither age column.
C25_Witness ==
    /\ pc = "rederive"
    /\ exc = "none"
    /\ Len(sales_analysis.rows) = 1
    /\ ~HasCol(sales_analysis, "Birthday")
    /\ HasCols(sales_analysis, {"Quantity", "Unit Price USD", "Unit Cost USD",
                                "Order Date", "Delivery Date"})
    /\ HasCols(df, {"Revenue", "Cost", "Profit", "Profit Margin", "Year",
                    "Month", "Quarter", "Day of Week", "Month Name",
                    "Week of Year", "Delivery Days"})
    /\ ~HasCol(df, "Customer Age")
    /\ ~HasCol(df, "Age Group")
    /\ df.rows[1]["Revenue"] = <<6>>

====
